---- MODULE Spec2Model ----
(***************************************************************************)
(* Violation-certificate protocol of furonglegend/ccsccs: the hash         *)
(* commitment (commitment.py), the transcript builder (violation_iop.py),  *)
(* the evaluator and the matrix views (r1cs_utils.py), the Prover          *)
(* (prover.py), the Verifier (verifier.py), the triage (fingerprint.py,    *)
(* slicer.py) and the brute-force search (solver_fallback.py).             *)
(*                                                                         *)
(* Python values are records [t, v]: t is the Python type ("int", "float", *)
(* "none", or "missing" for a key a dict does not hold) and v the number.  *)
(* Floats are the integer-valued ones, on which float arithmetic is exact. *)
(* Dicts are functions from strings; JSON text and digests are strings.    *)
(* SHA-256 is a symbolic injective function of the hashed text.            *)
(***************************************************************************)
EXTENDS Integers, Sequences, FiniteSets, TLC

VARIABLES
    pc,         \* position of the driver
    committed,  \* last commit_map call of the commitment harness: mapping, digest, nonce
    opening,    \* the opening handed to verify_commit
    vc,         \* what verify_commit returned: "None" (not called), "True", "False"
    r1cs,       \* the R1CS of the session (read-only)
    witness,    \* the caller's witness dict (the Prover may add ONE to it)
    cands,      \* the caller's candidate_idxs list
    prover,     \* the Prover instance's attributes
    proof,      \* what the last Prover call returned (commit_witness: the label map) or
                \* how it ended (make_proof: exception, locals, returned transcript)
    tx,         \* the transcript in flight
    tx0,        \* the transcript as make_transcript returned it
    vd,         \* what validate_transcript_digest returned: "None" (not called), "True", "False"
    vres,       \* what Verifier.verify returned
    evaluated,  \* what the last call of eval_constraint returned
    views,      \* what the last call of constraints_to_dense_matrices or to_triplet_list returned
    search,     \* the arguments of the last call of brute_force_search and what it returned
    sliced,     \* what the last call of the triage returned (fingerprints or slice_r1cs)
    sessions,   \* concurrent proof sessions: each thread's position and locals in make_proof
    instances   \* the attributes of each Prover instance the concurrent sessions use

cmVars == <<committed, opening, vc>>
pvVars == <<r1cs, witness, cands, prover, proof>>
txVars == <<tx, tx0, vd, vres>>
evVars == <<evaluated, views, search>>
slVars == <<sliced>>
ccVars == <<sessions, instances>>
vars == <<pc, committed, opening, vc, r1cs, witness, cands, prover, proof, tx, tx0, vd, vres,
          evaluated, views, search, sliced, sessions, instances>>

(***************************************************************************)
(* Bounds of the model.                                                    *)
(***************************************************************************)
MaxVal == 1         \* mapping values of the commitment harness range over 0..MaxVal
NumNonces == 2      \* how many distinct values secrets.token_hex may return

(***************************************************************************)
(* Python values.                                                          *)
(***************************************************************************)
PyInt(n) == [t |-> "int", v |-> n]
PyFloat(n) == [t |-> "float", v |-> n]
PyNone == [t |-> "none", v |-> 0]
Missing == [t |-> "missing", v |-> 0]
PyStr(text) == [t |-> "str", v |-> 0, s |-> text]     \* a str that is not the text of a number

Abs(x) == IF x < 0 THEN -x ELSE x
Max2(x, y) == IF x < y THEN y ELSE x

\* dict.get(key): the value, or None when the key is absent
DictGet(d, k) == IF k \in DOMAIN d THEN d[k] ELSE PyNone

\* dict.get(key, default)
DictGetDefault(d, k, dflt) == IF k \in DOMAIN d THEN d[k] ELSE dflt

(***************************************************************************)
(* json.dumps(obj, sort_keys=True, separators=(",", ":")).                 *)
(* Keys are sorted by code point: KeyOrder lists every key the model uses  *)
(* in that order (upper case before lower case).                           *)
(***************************************************************************)
KeyOrder ==
    << "ONE", "WITNESS", "a", "b", "c", "candidate_count", "d", "digest", "idx",
       "mapping", "meta", "nonce", "note", "opening", "residual", "source",
       "violations", "witness_commitments" >>

KeyRank(k) == CHOOSE i \in 1..Len(KeyOrder) : KeyOrder[i] = k

RECURSIVE SortedKeys(_)
SortedKeys(S) ==
    IF S = {} THEN << >>
    ELSE LET k == CHOOSE x \in S : \A y \in S : KeyRank(x) <= KeyRank(y)
         IN  <<k>> \o SortedKeys(S \ {k})

JsonStr(s) == "\"" \o s \o "\""

\* int -> "3", float -> "3.0" (repr of an integer-valued float), None -> "null"
JsonVal(x) ==
    CASE x.t = "int" -> ToString(x.v)
      [] x.t = "float" -> ToString(x.v) \o ".0"
      [] x.t = "none" -> "null"
      [] x.t = "str" -> JsonStr(x.s)

RECURSIVE JsonJoin(_)
JsonJoin(items) ==
    IF Len(items) = 0 THEN ""
    ELSE IF Len(items) = 1 THEN items[1]
    ELSE items[1] \o "," \o JsonJoin(Tail(items))

\* a dict whose values are already serialized: {"k1":v1,"k2":v2} in key order
JsonObject(texts) ==
    LET ks == SortedKeys(DOMAIN texts)
    IN  "{" \o JsonJoin([i \in 1..Len(ks) |-> JsonStr(ks[i]) \o ":" \o texts[ks[i]]]) \o "}"

JsonArray(items) == "[" \o JsonJoin(items) \o "]"

Sha256Hex(blob) == "sha256(" \o blob \o ")"

(***************************************************************************)
(* commitment.py                                                           *)
(***************************************************************************)
canonical_serialize_map(m) == JsonObject([k \in DOMAIN m |-> JsonVal(m[k])])

commit_blob(mapping, nonce) == canonical_serialize_map(mapping) \o "|" \o nonce

\* secrets.token_hex(16) is the argument nonce: the caller draws it
commit_map(mapping, nonce) ==
    [digest |-> Sha256Hex(commit_blob(mapping, nonce)), nonce |-> nonce]

\* an opening is a dict that may lack either key
open_map(mapping, nonce) ==
    [t |-> "dict", has_mapping |-> TRUE, mapping |-> mapping, has_nonce |-> TRUE, nonce |-> nonce]

NoOpening == [t |-> "none", has_mapping |-> FALSE, mapping |-> << >>, has_nonce |-> FALSE, nonce |-> ""]

\* an "opening" that is a str instead of a dict
StrOpening(text) == [t |-> "str", s |-> text]

verify_commit_wrong_separator(commitment_hex, o) ==
    IF ~o.has_mapping \/ ~o.has_nonce THEN FALSE
    ELSE Sha256Hex(canonical_serialize_map(o.mapping) \o ":" \o o.nonce) = commitment_hex

verify_commit_ignores_nonce(commitment_hex, o) ==
    IF ~o.has_mapping \/ ~o.has_nonce THEN FALSE
    ELSE \E n \in {"n" \o ToString(i) : i \in 1..NumNonces} :
            Sha256Hex(commit_blob(o.mapping, n)) = commitment_hex

verify_commit(commitment_hex, o) ==
    IF ~o.has_mapping \/ ~o.has_nonce THEN FALSE
    ELSE Sha256Hex(commit_blob(o.mapping, o.nonce)) = commitment_hex

PyBool(b) == IF b THEN "True" ELSE "False"

(***************************************************************************)
(* r1cs_utils.py: the evaluator.  A linear form maps a variable name to    *)
(* its coefficient (the number float(coeff)); a constraint is a dict with  *)
(* A, B, C and source.                                                     *)
(***************************************************************************)
RECURSIVE SumOver(_, _)
SumOver(S, f) ==
    IF S = {} THEN 0
    ELSE LET x == CHOOSE y \in S : TRUE
         IN  f[x] + SumOver(S \ {x}, f)

\* float(x) of an int or a float
PyToFloat(x) == x.v

eval_linear_form(linear, assignment) ==
    SumOver(DOMAIN linear,
            [var \in DOMAIN linear |->
                linear[var] * PyToFloat(DictGetDefault(assignment, var, PyFloat(0)))])

eval_constraint_adds(c, assignment) ==
    (eval_linear_form(c.A, assignment) + eval_linear_form(c.B, assignment))
        - eval_linear_form(c.C, assignment)

eval_constraint(c, assignment) ==
    (eval_linear_form(c.A, assignment) * eval_linear_form(c.B, assignment))
        - eval_linear_form(c.C, assignment)

constraint_support(c) == DOMAIN c.A \cup DOMAIN c.B \cup DOMAIN c.C

\* math.isclose(a, b, rel_tol=1e-9, abs_tol=1e-12) on integer-valued floats:
\* |a-b| <= max(rel_tol * max(|a|,|b|), abs_tol), and an integer is at most a
\* real bound exactly when it is at most the bound's floor (floor(1e-12) = 0)
RelTolInv == 1000000000
IsClose(a, b) ==
    Abs(a - b) <= Max2(Max2(Abs(a), Abs(b)) \div RelTolInv, 0)

(***************************************************************************)
(* violation_iop.py: the transcript builder.                               *)
(* An entry is [idx, residual, opening, source]; idx may be Missing.       *)
(***************************************************************************)
JsonOpening(o) ==
    IF o.t = "none" THEN "null"
    ELSE IF o.t = "str" THEN JsonStr(o.s)
    ELSE LET ks == {k \in {"mapping", "nonce"} :
                        (k = "mapping" /\ o.has_mapping) \/ (k = "nonce" /\ o.has_nonce)}
         IN  JsonObject([k \in ks |->
                 IF k = "mapping" THEN canonical_serialize_map(o.mapping)
                 ELSE JsonStr(o.nonce)])

JsonEntry(e) ==
    LET ks == {k \in {"idx", "residual", "opening", "source"} :
                   ~(k = "idx" /\ e.idx.t = "missing")}
    IN  JsonObject([k \in ks |->
            CASE k = "idx" -> JsonVal(e.idx)
              [] k = "residual" -> JsonVal(e.residual)
              [] k = "opening" -> JsonOpening(e.opening)
              [] k = "source" -> JsonStr(e.source)])

\* _transcript_digest of the dict {witness_commitments, violations, meta}
transcript_digest(wc, entries, meta) ==
    Sha256Hex(JsonObject(
        [k \in {"witness_commitments", "violations", "meta"} |->
            CASE k = "witness_commitments" -> JsonObject([l \in DOMAIN wc |-> JsonStr(wc[l])])
              [] k = "violations" -> JsonArray([i \in 1..Len(entries) |-> JsonEntry(entries[i])])
              [] k = "meta" -> JsonObject([m \in DOMAIN meta |-> JsonVal(meta[m])])]))

\* the meta argument: None (the default) or a dict
MetaNone == [isNone |-> TRUE, d |-> << >>]
MetaDict(d) == [isNone |-> FALSE, d |-> d]

make_transcript_digest_of_default_meta(wc, entries, metaArg) ==
    LET meta == IF metaArg.isNone \/ DOMAIN metaArg.d = {} THEN << >> ELSE metaArg.d
    IN  [present |-> TRUE, witness_commitments |-> wc, violations |-> entries,
         meta |-> meta, has_digest |-> TRUE,
         digest |-> transcript_digest(wc, entries, << >>)]

make_transcript(wc, entries, metaArg) ==
    LET meta == IF metaArg.isNone \/ DOMAIN metaArg.d = {} THEN << >> ELSE metaArg.d
    IN  [present |-> TRUE, witness_commitments |-> wc, violations |-> entries,
         meta |-> meta, has_digest |-> TRUE,
         digest |-> transcript_digest(wc, entries, meta)]

validate_transcript_digest_presence_only(t) ==
    t.has_digest /\ t.digest # ""

validate_transcript_digest_accepts_absent(t) ==
    IF ~t.has_digest \/ t.digest = "" THEN TRUE
    ELSE transcript_digest(t.witness_commitments, t.violations, t.meta) = t.digest

validate_transcript_digest(t) ==
    IF ~t.has_digest \/ t.digest = "" THEN FALSE
    ELSE transcript_digest(t.witness_commitments, t.violations, t.meta) = t.digest

(***************************************************************************)
(* verifier.py: Verifier.verify.                                           *)
(***************************************************************************)
\* the nested eval_linear: a missing or None value counts as 0.0
verifier_eval_linear(linear, assignment) ==
    SumOver(DOMAIN linear,
            [var \in DOMAIN linear |->
                LET val == DictGet(assignment, var)
                IN  linear[var] * (IF val.t = "none" THEN 0 ELSE PyToFloat(val))])

\* constraints[idx] of a Python list: a negative index counts from the end
ListGet(l, i) == IF i < 0 THEN l[Len(l) + i + 1] ELSE l[i + 1]

IdxOutOfRange_negative_allowed(idx, constraints) ==
    idx.t = "none" \/ idx.v >= Len(constraints) \/ -idx.v > Len(constraints)

\* idx is None or idx < 0 or idx >= len(constraints)
IdxOutOfRange(idx, constraints) ==
    idx.t = "none" \/ idx.v < 0 \/ idx.v >= Len(constraints)

IsTruthy_always(text) == TRUE

\* "if witness_top_commit:": None (no WITNESS label) and "" are false
IsTruthy(text) == text # ""

verify_entry_null_opening_always_ok(constraints, witness_top_commit, e) ==
    LET idx == IF e.idx.t = "missing" THEN PyNone ELSE e.idx
    IN  [report |-> [idx |-> idx, source |-> e.source, opening_ok |-> "None",
                     residual_ok |-> IF e.opening.t = "none" THEN "True" ELSE "False",
                     computed_residual |-> PyNone],
         ok |-> e.opening.t = "none", exc |-> ""]

\* one pass of the loop body: the entry's report, whether all_ok survives it,
\* and the exception the pass raises ("" for none)
verify_entry(constraints, witness_top_commit, e) ==
    LET idx == IF e.idx.t = "missing" THEN PyNone ELSE e.idx
        entry_report == [idx |-> idx, source |-> e.source, opening_ok |-> "None",
                         residual_ok |-> "None", computed_residual |-> PyNone]
        raise(x) == [report |-> entry_report, ok |-> FALSE, exc |-> x]
    IN  IF e.residual.t = "none" THEN raise("TypeError")             \* float(None)
        ELSE IF e.residual.t = "str" THEN raise("ValueError")        \* float("abc")
        ELSE
        LET residual_claim == PyToFloat(e.residual)
        IN  IF e.opening.t = "none"
            THEN LET ok == IsClose(residual_claim, 0)
                 IN  [report |-> [entry_report EXCEPT !.residual_ok = PyBool(ok)],
                      ok |-> ok, exc |-> ""]
            ELSE IF e.opening.t = "str" THEN raise("AttributeError") \* opening.get
            ELSE
            LET checked == IsTruthy(witness_top_commit)
                ok_commit == verify_commit(witness_top_commit, e.opening)
                r1 == IF checked
                      THEN [entry_report EXCEPT !.opening_ok = PyBool(ok_commit)]
                      ELSE entry_report
                commit_fail == checked /\ ~ok_commit
                opened_map == IF e.opening.has_mapping THEN e.opening.mapping ELSE << >>
            IN  IF idx.t = "str" THEN raise("TypeError")             \* idx < 0
                ELSE IF IdxOutOfRange(idx, constraints)
                THEN [report |-> [r1 EXCEPT !.residual_ok = "False"], ok |-> FALSE, exc |-> ""]
                ELSE IF idx.t = "float" THEN raise("TypeError")      \* constraints[idx]
                ELSE LET c == ListGet(constraints, idx.v)
                         computed == (verifier_eval_linear(c.A, opened_map)
                                        * verifier_eval_linear(c.B, opened_map))
                                     - verifier_eval_linear(c.C, opened_map)
                         res_ok == IsClose(computed, residual_claim)
                     IN  [report |-> [r1 EXCEPT !.computed_residual = PyFloat(computed),
                                                !.residual_ok = PyBool(res_ok)],
                          ok |-> ~commit_fail /\ res_ok, exc |-> ""]

verify_skips_digest_check(r, t) ==
    LET wc == t.witness_commitments
        wtc == IF "WITNESS" \in DOMAIN wc THEN wc["WITNESS"] ELSE ""
        results == [i \in 1..Len(t.violations) |->
                        verify_entry(r.constraints, wtc, t.violations[i])]
    IN  [called |-> TRUE, exc |-> "",
         accepted |-> \A i \in 1..Len(results) : results[i].ok,
         report |-> [digest_ok |-> validate_transcript_digest(t), commit_checks |-> << >>,
                     residual_checks |-> [i \in 1..Len(results) |-> results[i].report]]]

verify_ignores_commit_failure(r, t) ==
    IF ~validate_transcript_digest(t)
    THEN [called |-> TRUE, exc |-> "", accepted |-> FALSE,
          report |-> [digest_ok |-> FALSE, commit_checks |-> << >>, residual_checks |-> << >>]]
    ELSE LET wc == t.witness_commitments
             wtc == IF "WITNESS" \in DOMAIN wc THEN wc["WITNESS"] ELSE ""
             results == [i \in 1..Len(t.violations) |->
                            verify_entry(r.constraints, wtc, t.violations[i])]
         IN  [called |-> TRUE, exc |-> "",
              accepted |-> \A i \in 1..Len(results) :
                              results[i].report.residual_ok = "True",
              report |-> [digest_ok |-> TRUE, commit_checks |-> << >>,
                          residual_checks |-> [i \in 1..Len(results) |-> results[i].report]]]

verify_stops_at_first_failure(r, t) ==
    IF ~validate_transcript_digest(t)
    THEN [called |-> TRUE, exc |-> "", accepted |-> FALSE,
          report |-> [digest_ok |-> FALSE, commit_checks |-> << >>, residual_checks |-> << >>]]
    ELSE LET wc == t.witness_commitments
             wtc == IF "WITNESS" \in DOMAIN wc THEN wc["WITNESS"] ELSE ""
             results == [i \in 1..Len(t.violations) |->
                            verify_entry(r.constraints, wtc, t.violations[i])]
             failed == {i \in 1..Len(results) : ~results[i].ok}
             last == IF failed = {} THEN Len(results)
                     ELSE CHOOSE i \in failed : \A j \in failed : i <= j
         IN  IF \E i \in 1..last : results[i].exc # ""
             THEN [called |-> TRUE, exc |-> "TypeError"]
             ELSE [called |-> TRUE, exc |-> "",
                   accepted |-> failed = {},
                   report |-> [digest_ok |-> TRUE, commit_checks |-> << >>,
                               residual_checks |-> [i \in 1..last |-> results[i].report]]]

verify(r, t) ==
    IF ~validate_transcript_digest(t)
    THEN [called |-> TRUE, exc |-> "", accepted |-> FALSE,
          report |-> [digest_ok |-> FALSE, commit_checks |-> << >>, residual_checks |-> << >>]]
    ELSE LET wc == t.witness_commitments
             wtc == IF "WITNESS" \in DOMAIN wc THEN wc["WITNESS"] ELSE ""
             results == [i \in 1..Len(t.violations) |->
                            verify_entry(r.constraints, wtc, t.violations[i])]
             raised == {i \in 1..Len(results) : results[i].exc # ""}
         IN  IF raised # {}
             THEN \* the first entry that raises ends the call: nothing is returned
                  [called |-> TRUE,
                   exc |-> results[CHOOSE i \in raised : \A j \in raised : i <= j].exc]
             ELSE [called |-> TRUE, exc |-> "",
                   accepted |-> \A i \in 1..Len(results) : results[i].ok,
                   report |-> [digest_ok |-> TRUE, commit_checks |-> << >>,
                               residual_checks |-> [i \in 1..Len(results) |-> results[i].report]]]

(***************************************************************************)
(* Inputs of the commitment harness.                                       *)
(***************************************************************************)
Nonces == {"n" \o ToString(i) : i \in 1..NumNonces}

CmKeys == {"ONE", "a"}
CmValues == {PyFloat(n) : n \in 0..MaxVal} \cup {PyInt(n) : n \in 0..MaxVal} \cup {PyNone}
CmMappings == UNION {[K -> CmValues] : K \in SUBSET CmKeys}

CmOpenings ==
    {open_map(m, n) : m \in CmMappings, n \in Nonces}
    \cup {[open_map(m, n) EXCEPT !.has_mapping = FALSE, !.mapping = << >>] : m \in {<< >>}, n \in Nonces}
    \cup {[open_map(m, "") EXCEPT !.has_nonce = FALSE] : m \in CmMappings}

NoCommit == [mapping |-> << >>, digest |-> "", nonce |-> ""]
NoR1cs == [constraints |-> << >>]
NoProof == [exc |-> "", called |-> FALSE]
NoTx == [present |-> FALSE]
NoProver == [committed |-> FALSE]
NoVres == [called |-> FALSE, exc |-> ""]
NoSlice == [op |-> "none"]
NoView == [op |-> "none"]
NoSearch == [op |-> "none"]

(***************************************************************************)
(* The commitment harness: commit_map, then an opening (the honest one of  *)
(* open_map, or any other), then verify_commit.                            *)
(***************************************************************************)
InitCommit ==
    /\ pc = "cm_start"
    /\ committed = NoCommit
    /\ opening = NoOpening
    /\ vc = "None"
    /\ r1cs = NoR1cs
    /\ witness = << >>
    /\ cands = << >>
    /\ prover = NoProver
    /\ proof = NoProof
    /\ tx = NoTx
    /\ tx0 = NoTx
    /\ vd = "None"
    /\ vres = NoVres
    /\ evaluated = PyNone
    /\ views = NoView
    /\ search = NoSearch
    /\ sliced = NoSlice
    /\ sessions = << >>
    /\ instances = << >>

CommitMap ==
    /\ pc = "cm_start"
    /\ \E m \in CmMappings, n \in Nonces :
          LET c == commit_map(m, n)
          IN  committed' = [mapping |-> m, digest |-> c.digest, nonce |-> c.nonce]
    /\ pc' = "cm_committed"
    /\ UNCHANGED <<evVars, slVars, ccVars, opening, vc, pvVars, txVars>>

OpenMap ==
    /\ pc = "cm_committed"
    /\ opening' = open_map(committed.mapping, committed.nonce)
    /\ pc' = "cm_opened"
    /\ UNCHANGED <<evVars, slVars, ccVars, committed, vc, pvVars, txVars>>

ForgeOpening ==
    /\ pc = "cm_committed"
    /\ opening' \in CmOpenings
    /\ pc' = "cm_opened"
    /\ UNCHANGED <<evVars, slVars, ccVars, committed, vc, pvVars, txVars>>

VerifyCommit ==
    /\ pc = "cm_opened"
    /\ vc' = PyBool(verify_commit(committed.digest, opening))
    /\ pc' = "cm_verified"
    /\ UNCHANGED <<evVars, slVars, ccVars, committed, opening, pvVars, txVars>>

NextCommit == CommitMap \/ OpenMap \/ ForgeOpening \/ VerifyCommit

SpecCommit == InitCommit /\ [][NextCommit]_vars

(***************************************************************************)
(* C1: for every mapping m, with (digest, nonce) = commit_map(m),          *)
(* verify_commit(digest, open_map(m, nonce)) returns true.                 *)
(***************************************************************************)
C1_CommitOpenVerify ==
    (pc = "cm_verified" /\ opening = open_map(committed.mapping, committed.nonce))
        => vc = "True"

C1_Witness ==
    /\ pc = "cm_verified"
    /\ opening = open_map(committed.mapping, committed.nonce)
    /\ Cardinality(DOMAIN committed.mapping) = 2
    /\ vc = "True"

SameMapping(m1, m2) ==
    /\ DOMAIN m1 = DOMAIN m2
    /\ \A k \in DOMAIN m1 : m1[k] = m2[k]

C2_Binding ==
    (pc = "cm_verified" /\ vc = "True")
        => /\ opening.has_mapping /\ opening.has_nonce
           /\ opening.nonce = committed.nonce
           /\ SameMapping(opening.mapping, committed.mapping)

C2_Frame == [][pc = "cm_opened" => (opening' = opening /\ committed' = committed)]_vars

(***************************************************************************)
(* C2: verify_commit(digest, opening) is true only if the opening holds    *)
(* both keys, its nonce is the commit's nonce and its mapping has exactly  *)
(* the keys and values that were committed (a subset, a changed value, an  *)
(* extra key, a missing mapping or nonce all give false); verify_commit    *)
(* changes neither the opening nor the commitment.                         *)
(***************************************************************************)
C2_VerifyExactOnly == []C2_Binding /\ C2_Frame

\* a forged opening (proper subset of the committed mapping, right nonce) was rejected
C2_Witness ==
    /\ pc = "cm_verified"
    /\ vc = "False"
    /\ opening.has_mapping /\ opening.has_nonce
    /\ opening.nonce = committed.nonce
    /\ DOMAIN opening.mapping # DOMAIN committed.mapping
    /\ DOMAIN opening.mapping \subseteq DOMAIN committed.mapping
    /\ \A k \in DOMAIN opening.mapping : opening.mapping[k] = committed.mapping[k]

(***************************************************************************)
(* The R1CS and witnesses of the demos (prover.py, verifier.py), with one  *)
(* more constraint whose support is the whole witness.                     *)
(***************************************************************************)
ConstraintMul == [A |-> [a |-> 1], B |-> [b |-> 1], C |-> [c |-> 1], source |-> "c <== a * b;"]
ConstraintAdd == [A |-> [a |-> 1, b |-> 1], B |-> [ONE |-> 1], C |-> [d |-> 1], source |-> "d <== a + b;"]
ConstraintInc == [A |-> [a |-> 1, ONE |-> 1], B |-> [b |-> 1], C |-> [c |-> 1], source |-> "c <== (a + 1) * b;"]

DemoR1cs == [constraints |-> <<ConstraintMul, ConstraintAdd>>]
ExtendedR1cs == [constraints |-> <<ConstraintMul, ConstraintAdd, ConstraintInc>>]

WitnessGood == [ONE |-> PyFloat(1), a |-> PyFloat(3), b |-> PyFloat(4), c |-> PyFloat(12)]
WitnessBad == [ONE |-> PyFloat(1), a |-> PyFloat(3), b |-> PyFloat(4), c |-> PyFloat(11)]

\* {v: witness.get(v) for v in supp}
RestrictTo(w, supp) == [v \in supp |-> DictGet(w, v)]

(***************************************************************************)
(* The transcript harness: make_transcript on any commitments, entries and *)
(* meta, then at most one change of one field of the transcript, then      *)
(* validate_transcript_digest or Verifier.verify against ExtendedR1cs.     *)
(***************************************************************************)
MaxEntries == 2     \* longest list of entries handed to make_transcript

TxNonce == "n1"
TxOtherNonce == "n2"
TxWitnessDigest == commit_map(WitnessGood, TxNonce).digest

TxCommitments ==
    { << >>,
      [WITNESS |-> TxWitnessDigest, a |-> commit_map([a |-> PyFloat(3)], TxOtherNonce).digest] }

Entry(i, r, o, s) == [idx |-> i, residual |-> r, opening |-> o, source |-> s]

OpeningFull == open_map(WitnessGood, TxNonce)
OpeningAdd == open_map(RestrictTo(WitnessGood, constraint_support(ConstraintAdd)), TxNonce)

TxEntries ==
    { Entry(PyInt(0), PyFloat(0), NoOpening, ConstraintMul.source),    \* satisfied, in range
      Entry(PyInt(0), PyFloat(7), NoOpening, ConstraintMul.source),    \* non-zero claim, no opening
      Entry(PyInt(1), PyFloat(7), OpeningAdd, ConstraintAdd.source),   \* support of d <== a + b
      Entry(PyInt(2), PyFloat(4), OpeningFull, ConstraintInc.source),  \* whole witness disclosed
      Entry(PyInt(2), PyFloat(7), OpeningFull, ConstraintInc.source),  \* wrong residual claimed
      Entry(PyInt(3), PyFloat(0), NoOpening, ""),                      \* past the end, no opening
      Entry(PyInt(3), PyFloat(7), OpeningAdd, ""),                     \* past the end, opening
      Entry(PyInt(-1), PyFloat(4), OpeningFull, ""),                   \* negative, opening
      Entry(Missing, PyFloat(4), OpeningFull, ""),                     \* no idx, opening
      Entry(Missing, PyFloat(0), NoOpening, "") }                      \* no idx, no opening

\* entries a prover that does not follow make_proof can put in a transcript
ForgedEntries ==
    { Entry(PyInt(0), PyFloat(0), NoOpening, ConstraintMul.source),    \* well formed
      Entry(PyInt(0), PyStr("abc"), NoOpening, ConstraintMul.source),  \* residual is a str
      Entry(PyInt(0), PyNone, NoOpening, ConstraintMul.source),        \* residual is null
      Entry(PyStr("0"), PyFloat(0), OpeningFull, ConstraintMul.source),\* idx is a str
      Entry(PyStr("0"), PyFloat(0), NoOpening, ConstraintMul.source),  \* idx is a str, no opening
      Entry(PyFloat(1), PyFloat(7), OpeningAdd, ConstraintAdd.source), \* idx is 1.0
      Entry(PyFloat(3), PyFloat(0), OpeningAdd, ""),                   \* idx is 3.0, past the end
      Entry(PyInt(0), PyFloat(0), StrOpening("x"), ConstraintMul.source), \* opening is a str
      Entry(PyInt(1), PyFloat(7), OpeningAdd, ConstraintAdd.source) }  \* well formed, opening

\* the witness_commitments of such a prover: a WITNESS label with no digest in it
ForgedCommitments == TxCommitments \cup {[WITNESS |-> ""]}

RECURSIVE SeqsUpTo(_, _)
SeqsUpTo(S, n) ==
    IF n = 0 THEN {<< >>}
    ELSE LET shorter == SeqsUpTo(S, n - 1)
         IN  shorter \cup {Append(q, x) : q \in shorter, x \in S}

TamperDigests == {"deadbeef"}
TamperIdx == {PyInt(1), PyFloat(1)}
TamperResidual == {PyFloat(1), PyInt(0)}
TamperOpening == {NoOpening, [OpeningFull EXCEPT !.has_nonce = FALSE, !.nonce = ""]}
TamperSource == {"x"}

InitTx ==
    /\ pc = "tx_start"
    /\ committed = NoCommit
    /\ opening = NoOpening
    /\ vc = "None"
    /\ r1cs = ExtendedR1cs
    /\ witness = << >>
    /\ cands = << >>
    /\ prover = NoProver
    /\ proof = NoProof
    /\ tx = NoTx
    /\ tx0 = NoTx
    /\ vd = "None"
    /\ vres = NoVres
    /\ evaluated = PyNone
    /\ views = NoView
    /\ search = NoSearch
    /\ sliced = NoSlice
    /\ sessions = << >>
    /\ instances = << >>

MakeTranscript ==
    /\ pc = "tx_start"
    /\ \E wc \in TxCommitments, es \in SeqsUpTo(TxEntries, MaxEntries) :
         \E meta \in {MetaDict([candidate_count |-> PyInt(Len(es))])} :
            /\ tx' = make_transcript(wc, es, meta)
            /\ tx0' = tx'
    /\ pc' = "tx_made"
    /\ UNCHANGED <<evVars, slVars, ccVars, cmVars, pvVars, vd, vres>>

\* a transcript built by make_transcript (so its digest is self-consistent)
\* from entries of any shape
ForgeTranscript ==
    /\ pc = "tx_start"
    /\ \E wc \in ForgedCommitments, es \in SeqsUpTo(ForgedEntries, MaxEntries) :
          /\ tx' = make_transcript(wc, es, MetaNone)
          /\ tx0' = tx'
    /\ pc' = "tx_forged"
    /\ UNCHANGED <<evVars, slVars, ccVars, cmVars, pvVars, vd, vres>>

\* a change made to the transcript after make_transcript returned it
Tampered(t) ==
    /\ t # tx
    /\ tx' = t
    /\ pc' = "tx_tampered"
    /\ UNCHANGED <<evVars, slVars, ccVars, cmVars, pvVars, tx0, vd, vres>>

TamperCommitment ==
    /\ pc = "tx_made"
    /\ \E l \in DOMAIN tx.witness_commitments, d \in TamperDigests :
          Tampered([tx EXCEPT !.witness_commitments[l] = d])

TamperEntryIdx ==
    /\ pc = "tx_made"
    /\ \E i \in 1..Len(tx.violations), x \in TamperIdx :
          Tampered([tx EXCEPT !.violations[i].idx = x])

TamperEntryResidual ==
    /\ pc = "tx_made"
    /\ \E i \in 1..Len(tx.violations), x \in TamperResidual :
          Tampered([tx EXCEPT !.violations[i].residual = x])

TamperEntryOpening ==
    /\ pc = "tx_made"
    /\ \E i \in 1..Len(tx.violations), x \in TamperOpening :
          Tampered([tx EXCEPT !.violations[i].opening = x])

TamperEntrySource ==
    /\ pc = "tx_made"
    /\ \E i \in 1..Len(tx.violations), x \in TamperSource :
          Tampered([tx EXCEPT !.violations[i].source = x])

TamperMeta ==
    /\ pc = "tx_made"
    /\ \E k \in DOMAIN tx.meta, x \in {PyInt(9)} :
          Tampered([tx EXCEPT !.meta[k] = x])

\* the list of entries: one entry removed, or one appended
TamperEntries ==
    /\ pc = "tx_made"
    /\ \/ \E i \in 1..Len(tx.violations) :
             Tampered([tx EXCEPT !.violations =
                           SubSeq(tx.violations, 1, i - 1)
                               \o SubSeq(tx.violations, i + 1, Len(tx.violations))])
       \/ \E e \in {Entry(PyInt(0), PyFloat(0), NoOpening, ConstraintMul.source)} :
             Tampered([tx EXCEPT !.violations = Append(tx.violations, e)])

\* the digest field: another digest, an empty one, or none
TamperDigest ==
    /\ pc \in {"tx_made", "tx_forged"}
    /\ \/ \E d \in TamperDigests \cup {""} : Tampered([tx EXCEPT !.digest = d])
       \/ Tampered([tx EXCEPT !.has_digest = FALSE, !.digest = ""])

ValidateDigest ==
    /\ pc \in {"tx_made", "tx_tampered", "tx_forged"}
    /\ vd' = PyBool(validate_transcript_digest(tx))
    /\ pc' = "tx_validated"
    /\ UNCHANGED <<evVars, slVars, ccVars, cmVars, pvVars, tx, tx0, vres>>

Verify ==
    /\ pc \in {"tx_made", "tx_tampered", "tx_forged"}
    /\ vres' = verify(r1cs, tx)
    /\ pc' = IF vres'.exc = "" THEN "tx_verified" ELSE "tx_raised"
    /\ UNCHANGED <<evVars, slVars, ccVars, cmVars, pvVars, tx, tx0, vd>>

NextTx ==
    \/ MakeTranscript
    \/ ForgeTranscript
    \/ TamperCommitment
    \/ TamperEntryIdx
    \/ TamperEntryResidual
    \/ TamperEntryOpening
    \/ TamperEntrySource
    \/ TamperMeta
    \/ TamperEntries
    \/ TamperDigest
    \/ ValidateDigest
    \/ Verify

SpecTx == InitTx /\ [][NextTx]_vars

(***************************************************************************)
(* C3: once any one field of a transcript made by make_transcript has been *)
(* changed (a commitment digest, an entry's idx, residual, opening or      *)
(* source, a meta value, the list of entries, the digest itself),          *)
(* validate_transcript_digest returns false.                               *)
(***************************************************************************)
C3_TamperInvalidates ==
    (pc = "tx_validated" /\ tx # tx0) => vd = "False"

\* a residual was changed and the transcript was found invalid
C3_Witness ==
    /\ pc = "tx_validated"
    /\ vd = "False"
    /\ Len(tx.violations) = Len(tx0.violations)
    /\ \E i \in 1..Len(tx.violations) : tx.violations[i].residual # tx0.violations[i].residual
    /\ tx.digest = tx0.digest

(***************************************************************************)
(* C4: the transcript make_transcript returns validates, for every         *)
(* commitment map, entry list and meta, as long as it is not changed.      *)
(***************************************************************************)
C4_FreshTranscriptValid ==
    (pc = "tx_validated" /\ tx = tx0) => vd = "True"

C4_Witness ==
    /\ pc = "tx_validated"
    /\ tx = tx0
    /\ Len(tx.violations) = 2
    /\ DOMAIN tx.meta # {}
    /\ vd = "True"

ResidualChecks == vres.report.residual_checks

(***************************************************************************)
(* C5: Verifier.verify accepts exactly when the transcript digest is valid,*)
(* every entry's report has residual_ok = true and no entry's report has   *)
(* opening_ok = false; an opening_ok of null does not block acceptance.    *)
(***************************************************************************)
C5_AcceptedIff ==
    pc = "tx_verified" =>
        (vres.accepted <=>
            /\ validate_transcript_digest(tx)
            /\ Len(ResidualChecks) = Len(tx.violations)
            /\ \A i \in 1..Len(tx.violations) :
                  /\ ResidualChecks[i].residual_ok = "True"
                  /\ ResidualChecks[i].opening_ok # "False")

\* accepted, with one opening verified against WITNESS and one entry left unverified
C5_Witness ==
    /\ pc = "tx_verified"
    /\ vres.accepted
    /\ \E i, j \in 1..Len(ResidualChecks) :
          /\ ResidualChecks[i].opening_ok = "True"
          /\ ResidualChecks[j].opening_ok = "None"

(***************************************************************************)
(* C6: when the transcript digest does not validate, Verifier.verify       *)
(* returns (false, report) with digest_ok = false and no per-entry record, *)
(* whatever the entries are.                                               *)
(***************************************************************************)
C6_TamperShortCircuits ==
    (pc = "tx_verified" /\ ~validate_transcript_digest(tx)) =>
        /\ ~vres.accepted
        /\ vres.report.digest_ok = FALSE
        /\ vres.report.residual_checks = << >>
        /\ vres.report.commit_checks = << >>

\* a tampered transcript whose entries would all have passed
C6_Witness ==
    /\ pc = "tx_verified"
    /\ ~validate_transcript_digest(tx)
    /\ Len(tx.violations) = 2
    /\ verify_skips_digest_check(r1cs, tx).accepted
    /\ ~vres.accepted

EntryIdxBad(e) ==
    e.idx.t \in {"none", "missing"} \/ e.idx.v < 0 \/ e.idx.v >= Len(r1cs.constraints)

(***************************************************************************)
(* C10 as claimed: in a digest-valid transcript every entry whose idx is   *)
(* missing, negative or not below the number of constraints is failed      *)
(* (residual_ok = false, computed_residual = null) and the transcript is   *)
(* rejected, whether the entry's opening is present or null.               *)
(***************************************************************************)
C10_OutOfRangeFailsAlways ==
    (pc = "tx_verified" /\ validate_transcript_digest(tx)) =>
        \A i \in 1..Len(tx.violations) :
            EntryIdxBad(tx.violations[i]) =>
                /\ ResidualChecks[i].residual_ok = "False"
                /\ ResidualChecks[i].computed_residual = PyNone
                /\ ~vres.accepted

(***************************************************************************)
(* C10 as amended: in a digest-valid transcript every entry with a         *)
(* non-null opening whose idx is missing, negative or not below the number *)
(* of constraints is failed (residual_ok = false, computed_residual =      *)
(* null) and the transcript is rejected.                                   *)
(***************************************************************************)
C10_OutOfRangeFailsWithOpening ==
    (pc = "tx_verified" /\ validate_transcript_digest(tx)) =>
        \A i \in 1..Len(tx.violations) :
            (EntryIdxBad(tx.violations[i]) /\ tx.violations[i].opening.t # "none") =>
                /\ ResidualChecks[i].residual_ok = "False"
                /\ ResidualChecks[i].computed_residual = PyNone
                /\ ~vres.accepted

\* an entry with idx -1 and an opening that verifies was failed
C10_Witness ==
    /\ pc = "tx_verified"
    /\ validate_transcript_digest(tx)
    /\ \E i \in 1..Len(tx.violations) :
          /\ tx.violations[i].idx = PyInt(-1)
          /\ ResidualChecks[i].opening_ok = "True"
          /\ ResidualChecks[i].residual_ok = "False"

(***************************************************************************)
(* C11: in a digest-valid transcript an entry with a null opening gets     *)
(* residual_ok = true exactly when its claimed residual is zero; its       *)
(* opening_ok and computed_residual stay null; a non-zero claim with no    *)
(* opening fails the entry and the transcript.                             *)
(***************************************************************************)
C11_NullOpeningJudgedByClaim ==
    (pc = "tx_verified" /\ validate_transcript_digest(tx)) =>
        \A i \in 1..Len(tx.violations) :
            tx.violations[i].opening.t = "none" =>
                /\ ResidualChecks[i].residual_ok \in {"True", "False"}
                /\ ResidualChecks[i].residual_ok = "True" <=> tx.violations[i].residual.v = 0
                /\ ResidualChecks[i].opening_ok = "None"
                /\ ResidualChecks[i].computed_residual = PyNone
                /\ tx.violations[i].residual.v # 0 => ~vres.accepted

\* two entries without opening, one claiming 0 (passed) and one claiming 7 (failed)
C11_Witness ==
    /\ pc = "tx_verified"
    /\ validate_transcript_digest(tx)
    /\ \E i, j \in 1..Len(tx.violations) :
          /\ tx.violations[i].opening.t = "none" /\ tx.violations[i].residual.v = 0
          /\ ResidualChecks[i].residual_ok = "True"
          /\ tx.violations[j].opening.t = "none" /\ tx.violations[j].residual.v = 7
          /\ ResidualChecks[j].residual_ok = "False"
    /\ ~vres.accepted

(***************************************************************************)
(* C12: Verifier.verify never raises: on every transcript, those with a    *)
(* self-consistent digest and a non-numeric residual, a non-integer idx or *)
(* an opening that is not a mapping included, the call ends by returning   *)
(* an accepted boolean and a report.                                       *)
(***************************************************************************)
C12_VerifyNeverRaises ==
    vres.called =>
        /\ vres.exc = ""
        /\ pc = "tx_verified"
        /\ vres.accepted \in BOOLEAN
        /\ vres.report.digest_ok \in BOOLEAN

(***************************************************************************)
(* prover.py: the Prover.                                                  *)
(***************************************************************************)
\* _ensure_one: the witness dict after the call
ensure_one_overwrites(w) ==
    [v \in DOMAIN w \cup {"ONE"} |-> IF v = "ONE" THEN PyFloat(1) ELSE w[v]]

ensure_one(w) ==
    IF "ONE" \in DOMAIN w THEN w
    ELSE [v \in DOMAIN w \cup {"ONE"} |-> IF v = "ONE" THEN PyFloat(1) ELSE w[v]]

\* commit_witness(witness) with the nonces secrets.token_hex returns: the one
\* of the full commitment and one per variable.  The result holds the witness
\* after the call, the instance attributes it sets and the label map returned:
\* {"WITNESS": full_commit, **per-variable commits}, later keys winning.
commit_witness(w0, full_nonce, var_nonce) ==
    LET w == ensure_one(w0)
        full == commit_map(w, full_nonce)
        per_var == [v \in DOMAIN w |-> commit_map([x \in {v} |-> w[v]], var_nonce[v])]
    IN  [witness |-> w,
         attrs |-> [committed |-> TRUE,
                    full_opening_nonce |-> full.nonce,
                    full_commitment |-> full.digest,
                    per_var_openings |->
                        [v \in DOMAIN w |-> open_map([x \in {v} |-> w[v]], per_var[v].nonce)]],
         labels |-> [l \in {"WITNESS"} \cup DOMAIN w |->
                        IF l \in DOMAIN w THEN per_var[l].digest ELSE full.digest]]

proof_entry_opens_always(constraints, w, nonce, idx) ==
    LET c == ListGet(constraints, idx)
    IN  Entry(PyInt(idx), PyFloat(eval_constraint(c, w)),
              open_map(RestrictTo(w, constraint_support(c)), nonce), c.source)

\* one pass of the loop of make_proof over an in-range index
proof_entry(constraints, w, nonce, idx) ==
    LET c == ListGet(constraints, idx)
        residual == eval_constraint(c, w)
        is_zero == IsClose(residual, 0)
    IN  IF ~is_zero
        THEN Entry(PyInt(idx), PyFloat(residual),
                   open_map(RestrictTo(w, constraint_support(c)), nonce), c.source)
        ELSE Entry(PyInt(idx), PyFloat(0), NoOpening, c.source)

RECURSIVE proof_entries(_, _, _, _)
proof_entries(constraints, w, nonce, idxs) ==
    IF idxs = << >> THEN << >>
    ELSE LET idx == Head(idxs)
             rest == proof_entries(constraints, w, nonce, Tail(idxs))
         IN  IF idx < 0 \/ idx >= Len(constraints) THEN rest
             ELSE <<proof_entry(constraints, w, nonce, idx)>> \o rest

\* the names bound in make_proof when it reaches its call of make_transcript:
\* its parameters and the local variables it has assigned (the loop's own
\* variables hold no transcript argument and are left out), with their values
make_proof_locals(r, w0, idxs, full_nonce, var_nonce) ==
    LET cw == commit_witness(ensure_one(w0), full_nonce, var_nonce)
    IN  [r1cs |-> r,
         witness |-> cw.witness,
         candidate_idxs |-> idxs,
         witness_commits |-> cw.labels,
         entries |-> proof_entries(r.constraints, cw.witness,
                                   cw.attrs.full_opening_nonce, idxs),
         constraints |-> r.constraints,
         meta |-> MetaDict([candidate_count |-> PyInt(Len(idxs))]),
         self |-> cw.attrs]

\* the names of the module prover.py: its imports and its class
ProverModuleNames ==
    {"Dict", "Any", "List", "math", "commitment", "violation_iop",
     "constraint_support", "eval_constraint", "Prover"}

\* the first argument of the call violation_iop.make_transcript(...)
TranscriptArgName == "witness_commitments"

\* the last two statements of make_proof, given the names bound when they
\* run: the call of make_transcript on the name TranscriptArgName, and return
make_proof_return(locals) ==
    IF TranscriptArgName \in DOMAIN locals
    THEN [exc |-> "", tx |-> make_transcript(locals[TranscriptArgName],
                                             locals.entries, locals.meta)]
    ELSE IF TranscriptArgName \in ProverModuleNames
    THEN [exc |-> "TypeError", tx |-> NoTx]    \* json.dumps of a module or class
    ELSE [exc |-> "NameError", tx |-> NoTx]    \* neither local, global nor builtin

\* make_proof: the exception it ends with ("" for none), what it leaves in the
\* witness and the instance, the entries it built, and the transcript returned
make_proof(r, w0, idxs, full_nonce, var_nonce) ==
    LET locals == make_proof_locals(r, w0, idxs, full_nonce, var_nonce)
        out == [called |-> TRUE, witness |-> locals.witness, attrs |-> locals.self,
                witness_commits |-> locals.witness_commits, entries |-> locals.entries,
                r1cs |-> locals.r1cs, candidate_idxs |-> locals.candidate_idxs]
    IN  make_proof_return(locals) @@ out

(***************************************************************************)
(* A proof session: a caller's r1cs and witness, an optional               *)
(* commit_witness, then make_proof on a candidate list.                    *)
(***************************************************************************)
MaxCands == 2       \* longest candidate_idxs list

WitnessNoOne == [a |-> PyFloat(3), b |-> PyFloat(4), c |-> PyFloat(12)]
WitnessZero == [a |-> PyFloat(0)]

WitnessOneTwo == [ONE |-> PyFloat(2), a |-> PyFloat(3)]

\* a witness with a variable called WITNESS
WitnessNamedWitness == [WITNESS |-> PyFloat(5), a |-> PyFloat(3)]

Witnesses ==
    {WitnessGood, WitnessBad, WitnessNoOne, WitnessZero, WitnessOneTwo, WitnessNamedWitness}
R1csSet == {DemoR1cs, ExtendedR1cs}

\* the values secrets.token_hex returns to a Prover
ProverNonces == {"n1", "n2"}

\* the per-variable values: one value for every variable of the witness
VarNonces(w) == {[v \in DOMAIN w |-> m] : m \in ProverNonces}

\* indices below, in and past the constraint list
CandIdxs(r) == -1 .. Len(r.constraints)

Init ==
    /\ pc = "unstarted"
    /\ committed = NoCommit
    /\ opening = NoOpening
    /\ vc = "None"
    /\ r1cs \in R1csSet
    /\ witness \in Witnesses
    /\ cands \in SeqsUpTo(CandIdxs(r1cs), MaxCands)
    /\ prover = NoProver
    /\ proof = NoProof
    /\ tx = NoTx
    /\ tx0 = NoTx
    /\ vd = "None"
    /\ vres = NoVres
    /\ evaluated = PyNone
    /\ views = NoView
    /\ search = NoSearch
    /\ sliced = NoSlice
    /\ sessions = << >>
    /\ instances = << >>

CommitWitness ==
    /\ pc = "unstarted"
    /\ \E n \in ProverNonces : \E vn \in VarNonces(ensure_one(witness)) :
          \E cw \in {commit_witness(witness, n, vn)} :
              /\ witness' = cw.witness
              /\ prover' = cw.attrs
              /\ proof' = [called |-> FALSE, exc |-> "", witness_commits |-> cw.labels]
    /\ pc' = "committed"
    /\ UNCHANGED <<evVars, slVars, ccVars, cmVars, r1cs, cands, txVars>>

MakeProof ==
    /\ pc \in {"unstarted", "committed"}
    /\ \E n \in ProverNonces : \E vn \in VarNonces(ensure_one(witness)) :
            \E res \in {make_proof(r1cs, witness, cands, n, vn)} :
                /\ r1cs' = res.r1cs
                /\ cands' = res.candidate_idxs
                /\ witness' = res.witness
                /\ prover' = res.attrs
                /\ proof' = [called |-> TRUE, exc |-> res.exc,
                             witness_commits |-> res.witness_commits,
                             entries |-> res.entries, tx |-> res.tx]
                /\ tx' = res.tx
                /\ tx0' = res.tx
    /\ pc' = "proof_done"
    /\ UNCHANGED <<evVars, slVars, ccVars, cmVars, vd, vres>>

Next == CommitWitness \/ MakeProof

Spec == Init /\ [][Next]_vars

RECURSIVE InRange(_, _)
InRange(idxs, n) ==
    IF idxs = << >> THEN << >>
    ELSE IF Head(idxs) < 0 \/ Head(idxs) >= n THEN InRange(Tail(idxs), n)
    ELSE <<Head(idxs)>> \o InRange(Tail(idxs), n)

WantedIdxs == InRange(cands, Len(r1cs.constraints))

(***************************************************************************)
(* C7: for every r1cs, witness and candidate_idxs (indices below 0 or past *)
(* the constraints and repeated indices included) make_proof ends without  *)
(* raising and returns a transcript whose digest validates and whose       *)
(* violations list has one entry per in-range occurrence in                *)
(* candidate_idxs, in the order requested.                                 *)
(***************************************************************************)
C7_MakeProofReturnsTranscript ==
    pc = "proof_done" =>
        /\ proof.exc = ""
        /\ validate_transcript_digest(proof.tx)
        /\ Len(proof.tx.violations) = Len(WantedIdxs)
        /\ \A i \in 1..Len(WantedIdxs) : proof.tx.violations[i].idx = PyInt(WantedIdxs[i])

(***************************************************************************)
(* C8: the transcript of an honest make_proof, verified unchanged against  *)
(* the same r1cs, has residual_ok = true for every entry, and for every    *)
(* entry with an opening the verifier's computed_residual is the residual  *)
(* the prover computed under the full witness.                             *)
(***************************************************************************)
C8_HonestResidualsAgree ==
    (pc = "proof_done" /\ WantedIdxs # << >>) =>
        /\ proof.exc = ""
        /\ LET rep == verify(r1cs, proof.tx).report.residual_checks
               es == proof.tx.violations
           IN  /\ Len(rep) = Len(es)
               /\ Len(es) = Len(WantedIdxs)
               /\ \A i \in 1..Len(es) :
                     /\ rep[i].residual_ok = "True"
                     /\ es[i].opening.t # "none" =>
                           /\ rep[i].computed_residual = es[i].residual
                           /\ rep[i].computed_residual =
                                 PyFloat(eval_constraint(
                                     ListGet(r1cs.constraints, WantedIdxs[i]), witness))

ScenarioA == r1cs = DemoR1cs /\ witness = WitnessGood /\ cands = <<0, 1>>

(***************************************************************************)
(* C9: in the verified honest transcript a violated entry's opening_ok is  *)
(* true exactly when the support of its constraint is the key set of the   *)
(* committed witness; a disclosed mapping that is not the whole witness    *)
(* gives opening_ok = false and a rejected transcript.  Scenario A         *)
(* (witness {ONE:1,a:3,b:4,c:12}, indices [0,1]): entry 0 passes, entry 1  *)
(* has residual 7, residual_ok = true, opening_ok = false; rejected.       *)
(***************************************************************************)
C9_OpeningOkIffFullSupport ==
    (pc = "proof_done" /\ WantedIdxs # << >>) =>
        /\ proof.exc = ""
        /\ LET res == verify(r1cs, proof.tx)
               rep == res.report.residual_checks
               es == proof.tx.violations
           IN  /\ Len(rep) = Len(es)
               /\ Len(es) = Len(WantedIdxs)
               /\ \A i \in 1..Len(es) :
                     es[i].opening.t # "none" =>
                        /\ rep[i].opening_ok =
                              PyBool(constraint_support(ListGet(r1cs.constraints, WantedIdxs[i]))
                                        = DOMAIN witness)
                        /\ ~SameMapping(es[i].opening.mapping, witness) =>
                              (rep[i].opening_ok = "False" /\ ~res.accepted)
               /\ ScenarioA =>
                     /\ Len(es) = 2
                     /\ es[1].opening = NoOpening /\ rep[1].residual_ok = "True"
                     /\ es[2].residual = PyFloat(7)
                     /\ rep[2].residual_ok = "True"
                     /\ rep[2].opening_ok = "False"
                     /\ ~res.accepted

(***************************************************************************)
(* C13: after commit_witness(w) or make_proof(r1cs, w, idxs), on any       *)
(* witness w, w holds ONE with the value 1, and the witness that was       *)
(* committed binds ONE to 1 and to nothing else.                           *)
(***************************************************************************)
C13_OneIsAlwaysOne ==
    pc \in {"committed", "proof_done"} =>
        /\ "ONE" \in DOMAIN witness
        /\ witness["ONE"].v = 1
        /\ prover.committed
        /\ prover.full_commitment = commit_map(witness, prover.full_opening_nonce).digest
        /\ prover.per_var_openings["ONE"].mapping["ONE"].v = 1

\* the value of a linear form over the variables of the demo witnesses
FormTerm(linear, w, var) ==
    (IF var \in DOMAIN linear THEN linear[var] ELSE 0)
        * (IF var \in DOMAIN w THEN w[var].v ELSE 0)

FormValueDemo(linear, w) ==
    FormTerm(linear, w, "ONE") + FormTerm(linear, w, "a") + FormTerm(linear, w, "b")
        + FormTerm(linear, w, "c") + FormTerm(linear, w, "d")

(***************************************************************************)
(* C18: the entries make_proof builds are one per in-range index, each     *)
(* with the idx and source of its constraint; an entry has a null opening  *)
(* and residual 0 exactly when the constraint's residual under the witness *)
(* is zero, and otherwise the computed residual and a non-null opening.    *)
(***************************************************************************)
C18_EntryPerResidual ==
    pc = "proof_done" =>
        /\ Len(proof.entries) = Len(WantedIdxs)
        /\ \A i \in 1..Len(WantedIdxs) :
              LET c == r1cs.constraints[WantedIdxs[i] + 1]
                  e == proof.entries[i]
                  res == (FormValueDemo(c.A, witness) * FormValueDemo(c.B, witness))
                             - FormValueDemo(c.C, witness)
              IN  /\ e.idx = PyInt(WantedIdxs[i])
                  /\ e.source = c.source
                  /\ (e.opening = NoOpening) <=> (res = 0)
                  /\ (e.residual = PyFloat(0)) <=> (res = 0)
                  /\ res # 0 => (e.residual = PyFloat(res) /\ e.opening.t = "dict")

\* one satisfied and one violated constraint in the same call
C18_Witness ==
    /\ pc = "proof_done"
    /\ Len(proof.entries) = 2
    /\ proof.entries[1].opening = NoOpening
    /\ proof.entries[2].opening.t = "dict"
    /\ proof.entries[2].residual = PyFloat(7)

(***************************************************************************)
(* C19: every violated entry of the transcript make_proof returns opens    *)
(* exactly the variables of its constraint's support, each bound to the    *)
(* witness value (null when the witness lacks it), under the nonce of the  *)
(* WITNESS commitment listed in that transcript's witness_commitments.     *)
(***************************************************************************)
C19_OpeningIsSupportUnderWitnessNonce ==
    pc = "proof_done" =>
        \A i \in 1..Len(proof.entries) :
            proof.entries[i].opening.t # "none" =>
                LET e == proof.entries[i]
                    c == r1cs.constraints[WantedIdxs[i] + 1]
                    supp == DOMAIN c.A \cup DOMAIN c.B \cup DOMAIN c.C
                IN  /\ proof.tx.present
                    /\ i <= Len(proof.tx.violations)
                    /\ proof.tx.violations[i] = e
                    /\ DOMAIN e.opening.mapping = supp
                    /\ \A v \in supp :
                          e.opening.mapping[v] =
                              (IF v \in DOMAIN witness THEN witness[v] ELSE PyNone)
                    /\ e.opening.nonce = prover.full_opening_nonce
                    /\ proof.tx.witness_commitments["WITNESS"]
                          = commit_map(witness, e.opening.nonce).digest

(***************************************************************************)
(* C20: for every witness, whatever its variable names, the label map      *)
(* commit_witness returns binds WITNESS to the commitment over the whole   *)
(* witness (it verifies against open_map(w, session nonce)) and every      *)
(* variable v of w to a commitment over {v: w[v]}.                         *)
(***************************************************************************)
C20_LabelsCommitWitnessAndVariables ==
    pc \in {"committed", "proof_done"} =>
        LET labels == proof.witness_commits
        IN  /\ "WITNESS" \in DOMAIN labels
            /\ verify_commit(labels["WITNESS"], open_map(witness, prover.full_opening_nonce))
            /\ \A v \in DOMAIN witness :
                  /\ v \in DOMAIN labels
                  /\ prover.per_var_openings[v].mapping = [x \in {v} |-> witness[v]]
                  /\ verify_commit(labels[v], prover.per_var_openings[v])

(***************************************************************************)
(* Concurrent proof sessions: each thread has its own Prover instance, its *)
(* own r1cs, witness dict and index list, and runs make_proof (after an    *)
(* optional commit_witness call of its own) one statement at a time.       *)
(***************************************************************************)
Sessions == {1, 2}

\* the Prover instance a session calls: its own when each session has
\* constructed one, else the one instance the sessions share
InstanceOf(s) == IF s \in DOMAIN instances THEN s ELSE 1

ConcWitnesses == {WitnessBad, WitnessNoOne}
ConcIdxs == {<<0, 1>>, <<1>>}

SessionStart(r, w, idxs) ==
    [pc |-> "start", r1cs |-> r, witness |-> w, candidate_idxs |-> idxs, k |-> 0,
     witness_commits |-> << >>, entries |-> << >>, exc |-> "", tx |-> NoTx]

\* the nonces of one commit_witness call: the full one and the per-variable ones
SessionNonces(w) ==
    {[full |-> n, var |-> [v \in DOMAIN ensure_one(w) |-> m]] : n, m \in ProverNonces}

InitConc ==
    /\ pc = "concurrent"
    /\ committed = NoCommit
    /\ opening = NoOpening
    /\ vc = "None"
    /\ r1cs = NoR1cs
    /\ witness = << >>
    /\ cands = << >>
    /\ prover = NoProver
    /\ proof = NoProof
    /\ tx = NoTx
    /\ tx0 = NoTx
    /\ vd = "None"
    /\ vres = NoVres
    /\ evaluated = PyNone
    /\ views = NoView
    /\ search = NoSearch
    /\ sliced = NoSlice
    /\ sessions \in [Sessions -> {SessionStart(r, w, idxs) :
                                     r \in R1csSet, w \in ConcWitnesses, idxs \in ConcIdxs}]
    /\ instances = [i \in Sessions |-> NoProver]

ConcFrame == UNCHANGED <<pc, cmVars, pvVars, txVars, evVars, slVars>>

\* the session calls commit_witness(witness) itself before make_proof
SessionCommitWitness(s) ==
    /\ sessions[s].pc = "start"
    /\ \E ns \in SessionNonces(sessions[s].witness) :
          \E cw \in {commit_witness(sessions[s].witness, ns.full, ns.var)} :
              /\ sessions' = [sessions EXCEPT ![s].pc = "precommitted",
                                               ![s].witness = cw.witness]
              /\ instances' = [instances EXCEPT ![InstanceOf(s)] = cw.attrs]
    /\ ConcFrame

\* make_proof: self._ensure_one(witness)
SessionEnsureOne(s) ==
    /\ sessions[s].pc \in {"start", "precommitted"}
    /\ sessions' = [sessions EXCEPT ![s].pc = "ensured",
                                     ![s].witness = ensure_one(sessions[s].witness)]
    /\ UNCHANGED instances
    /\ ConcFrame

\* make_proof: witness_commits = self.commit_witness(witness)
SessionCommit(s) ==
    /\ sessions[s].pc = "ensured"
    /\ \E ns \in SessionNonces(sessions[s].witness) :
          \E cw \in {commit_witness(sessions[s].witness, ns.full, ns.var)} :
              /\ sessions' = [sessions EXCEPT ![s].pc = "loop",
                                               ![s].witness = cw.witness,
                                               ![s].witness_commits = cw.labels]
              /\ instances' = [instances EXCEPT ![InstanceOf(s)] = cw.attrs]
    /\ ConcFrame

\* make_proof: one pass of the loop over candidate_idxs
SessionLoop(s) ==
    /\ sessions[s].pc = "loop"
    /\ sessions[s].k < Len(sessions[s].candidate_idxs)
    /\ LET me == sessions[s]
           idx == me.candidate_idxs[me.k + 1]
           constraints == me.r1cs.constraints
           added == IF idx < 0 \/ idx >= Len(constraints) THEN << >>
                    ELSE <<proof_entry(constraints, me.witness,
                                       instances[InstanceOf(s)].full_opening_nonce, idx)>>
       IN  sessions' = [sessions EXCEPT ![s].k = me.k + 1,
                                        ![s].entries = me.entries \o added]
    /\ UNCHANGED instances
    /\ ConcFrame

\* make_proof: meta, the call of make_transcript, return
SessionReturn(s) ==
    /\ sessions[s].pc = "loop"
    /\ sessions[s].k = Len(sessions[s].candidate_idxs)
    /\ LET me == sessions[s]
           locals == [r1cs |-> me.r1cs,
                      witness |-> me.witness,
                      candidate_idxs |-> me.candidate_idxs,
                      witness_commits |-> me.witness_commits,
                      entries |-> me.entries,
                      constraints |-> me.r1cs.constraints,
                      meta |-> MetaDict([candidate_count |-> PyInt(Len(me.candidate_idxs))]),
                      self |-> instances[InstanceOf(s)]]
           res == make_proof_return(locals)
       IN  sessions' = [sessions EXCEPT ![s].pc = "done", ![s].exc = res.exc, ![s].tx = res.tx]
    /\ UNCHANGED instances
    /\ ConcFrame

NextConc ==
    \E s \in Sessions :
        \/ SessionCommitWitness(s)
        \/ SessionEnsureOne(s)
        \/ SessionCommit(s)
        \/ SessionLoop(s)
        \/ SessionReturn(s)

SpecConc == InitConc /\ [][NextConc]_vars

(***************************************************************************)
(* C14: whatever the interleaving of two sessions on two Prover instances, *)
(* each session ends with a transcript in which every opening carries the  *)
(* nonce under which that transcript's WITNESS commitment was made, and    *)
(* whose entries are those of the session's own r1cs, witness and indices. *)
(***************************************************************************)
C14_SessionsIndependent ==
    \A s \in DOMAIN sessions :
        sessions[s].pc = "done" =>
            /\ sessions[s].exc = ""
            /\ sessions[s].tx.present
            /\ LET me == sessions[s]
               IN  \E n \in ProverNonces :
                      /\ me.tx.witness_commitments["WITNESS"] = commit_map(me.witness, n).digest
                      /\ me.tx.violations =
                            proof_entries(me.r1cs.constraints, me.witness, n, me.candidate_idxs)
                      /\ \A i \in 1..Len(me.tx.violations) :
                            me.tx.violations[i].opening.t # "none" =>
                                me.tx.violations[i].opening.nonce = n

(***************************************************************************)
(* fingerprint.py and slicer.py: the triage.  Here a dict keeps its        *)
(* insertion order: A, B and C are sequences of items [k, v] with distinct *)
(* keys, and a constraint may lack the key "source".  Scores are kept in   *)
(* millionths; the 64-bit prefix of a SHA-256 digest is taken to identify  *)
(* the digest.                                                             *)
(***************************************************************************)
Item(name, coeff) == [k |-> name, v |-> coeff]

ItemKeys(items) == {items[i].k : i \in 1..Len(items)}

\* sorted(entries.items(), key=lambda kv: kv[0])
SortedItems(items) ==
    LET ks == SortedKeys(ItemKeys(items))
    IN  [i \in 1..Len(ks) |-> items[CHOOSE j \in 1..Len(items) : items[j].k = ks[i]]]

\* f"{float(coeff):.12g}" of an integer-valued coefficient below 10^12
FormatG(coeff) == ToString(PyToFloat(coeff))

RECURSIVE JoinWith(_, _)
JoinWith(sep, texts) ==
    IF Len(texts) = 0 THEN ""
    ELSE IF Len(texts) = 1 THEN texts[1]
    ELSE texts[1] \o sep \o JoinWith(sep, Tail(texts))

PartText(part, items) ==
    part \o ":" \o JoinWith(",", [i \in 1..Len(items) |->
                                     items[i].k \o "=" \o FormatG(items[i].v)])

normalize_constraint_representation_insertion_order(c) ==
    JoinWith("|", <<PartText("A", c.A), PartText("B", c.B), PartText("C", c.C)>>
                    \o (IF c.has_source THEN <<"src:" \o c.source>> ELSE << >>))

normalize_constraint_representation(c) ==
    JoinWith("|", <<PartText("A", SortedItems(c.A)),
                    PartText("B", SortedItems(c.B)),
                    PartText("C", SortedItems(c.C))>>
                    \o (IF c.has_source THEN <<"src:" \o c.source>> ELSE << >>))

\* h[:truncate] of a hex digest; truncate = 0 stands for None (the whole digest)
HexPrefix(h, truncate) ==
    IF truncate = 0 THEN h ELSE "hex" \o ToString(truncate) \o "(" \o h \o ")"

\* the default of fingerprint_constraint's truncate parameter
DefaultTruncate == 16

fingerprint_constraint(c, truncate) ==
    HexPrefix(Sha256Hex(normalize_constraint_representation(c)), truncate)

\* r1cs_utils.constraint_support and constraint_nz_count on ordered dicts
slicer_support(c) == ItemKeys(c.A) \cup ItemKeys(c.B) \cup ItemKeys(c.C)

NzOf(items) == Cardinality({i \in 1..Len(items) : PyToFloat(items[i].v) # 0})

constraint_nz_count(c) == NzOf(c.A) + NzOf(c.B) + NzOf(c.C)

constraint_summary(c) ==
    [support_size |-> Cardinality(slicer_support(c)),
     nz_count |-> constraint_nz_count(c),
     support |-> SortedKeys(slicer_support(c)),
     source |-> IF c.has_source THEN c.source ELSE ""]

\* math.log1p(n) in millionths, for n = 0..5
Log1pMicro == <<0, 693147, 1098612, 1386294, 1609438, 1791759>>

\* nz * (1.0 + log1p(supp)), in millionths
score_constraint(c) ==
    constraint_nz_count(c) * (1000000 + Log1pMicro[Cardinality(slicer_support(c)) + 1])

\* the loop of slice_r1cs from constraint number i (0-based) on
RECURSIVE slice_scan(_, _, _, _)
slice_scan(constraints, i, seen_fps, deduplicate) ==
    IF i >= Len(constraints) THEN << >>
    ELSE LET c == constraints[i + 1]
             fp == fingerprint_constraint(c, DefaultTruncate)
         IN  IF deduplicate /\ fp \in seen_fps
             THEN slice_scan(constraints, i + 1, seen_fps, deduplicate)
             ELSE <<[idx |-> i, score |-> score_constraint(c), fingerprint |-> fp,
                     summary |-> constraint_summary(c), constraint |-> c]>>
                  \o slice_scan(constraints, i + 1, seen_fps \cup {fp}, deduplicate)

\* list.sort(key=score, reverse=True): stable, equal scores keep their order
RECURSIVE SortByScoreDesc(_)
SortByScoreDesc(l) ==
    IF l = << >> THEN << >>
    ELSE LET best == CHOOSE i \in 1..Len(l) :
                        /\ \A j \in 1..Len(l) : l[j].score <= l[i].score
                        /\ \A j \in 1..(i - 1) : l[j].score < l[i].score
         IN  <<l[best]>> \o SortByScoreDesc(SubSeq(l, 1, best - 1) \o SubSeq(l, best + 1, Len(l)))

\* l[:k] of a Python list: a negative k counts from the end
PySliceTo(l, k) ==
    IF k >= Len(l) THEN l
    ELSE IF k >= 0 THEN SubSeq(l, 1, k)
    ELSE IF Len(l) + k > 0 THEN SubSeq(l, 1, Len(l) + k)
    ELSE << >>

slice_r1cs_keeps_duplicates(r, top_k, deduplicate) ==
    PySliceTo(SortByScoreDesc(slice_scan(r.constraints, 0, {}, FALSE)), top_k)

slice_r1cs(r, top_k, deduplicate) ==
    PySliceTo(SortByScoreDesc(slice_scan(r.constraints, 0, {}, deduplicate)), top_k)

(***************************************************************************)
(* The triage harness: an r1cs of up to MaxConstraints constraints, then   *)
(* the fingerprint of each constraint, or slice_r1cs.                      *)
(***************************************************************************)
MaxConstraints == 3     \* longest constraint list handed to the triage

SlConstraint(a, b, c, hs, src) == [A |-> a, B |-> b, C |-> c, has_source |-> hs, source |-> src]

SlSum == "d <== a + b;"

SlConstraints ==
    { SlConstraint(<<Item("a", PyFloat(1)), Item("b", PyFloat(1))>>, <<Item("ONE", PyFloat(1))>>,
                   <<Item("d", PyFloat(1))>>, TRUE, SlSum),
      \* the same mappings, A inserted in the other order
      SlConstraint(<<Item("b", PyFloat(1)), Item("a", PyFloat(1))>>, <<Item("ONE", PyFloat(1))>>,
                   <<Item("d", PyFloat(1))>>, TRUE, SlSum),
      \* the same mappings, a coefficient given as the int 1
      SlConstraint(<<Item("a", PyInt(1)), Item("b", PyFloat(1))>>, <<Item("ONE", PyFloat(1))>>,
                   <<Item("d", PyFloat(1))>>, TRUE, SlSum),
      \* another coefficient
      SlConstraint(<<Item("a", PyFloat(2)), Item("b", PyFloat(1))>>, <<Item("ONE", PyFloat(1))>>,
                   <<Item("d", PyFloat(1))>>, TRUE, SlSum),
      \* the same mappings without source
      SlConstraint(<<Item("a", PyFloat(1)), Item("b", PyFloat(1))>>, <<Item("ONE", PyFloat(1))>>,
                   <<Item("d", PyFloat(1))>>, FALSE, ""),
      \* a multiplication, and one with a zero coefficient
      SlConstraint(<<Item("a", PyFloat(1))>>, <<Item("b", PyFloat(1))>>,
                   <<Item("c", PyFloat(1))>>, TRUE, "c <== a * b;"),
      SlConstraint(<<Item("a", PyFloat(0))>>, << >>, << >>, TRUE, "") }

SliceTopK == -1 .. (MaxConstraints + 1)

InitSlice ==
    /\ pc = "sl_start"
    /\ committed = NoCommit
    /\ opening = NoOpening
    /\ vc = "None"
    /\ r1cs \in {[constraints |-> cs] : cs \in SeqsUpTo(SlConstraints, MaxConstraints)}
    /\ witness = << >>
    /\ cands = << >>
    /\ prover = NoProver
    /\ proof = NoProof
    /\ tx = NoTx
    /\ tx0 = NoTx
    /\ vd = "None"
    /\ vres = NoVres
    /\ evaluated = PyNone
    /\ views = NoView
    /\ search = NoSearch
    /\ sliced = NoSlice
    /\ sessions = << >>
    /\ instances = << >>

FingerprintConstraints ==
    /\ pc = "sl_start"
    /\ sliced' = [op |-> "fingerprint",
                  fps |-> [i \in 1..Len(r1cs.constraints) |->
                              fingerprint_constraint(r1cs.constraints[i], DefaultTruncate)]]
    /\ pc' = "sl_fingerprinted"
    /\ UNCHANGED <<cmVars, pvVars, txVars, evVars, ccVars>>

SliceR1cs ==
    /\ pc = "sl_start"
    /\ \E top_k \in SliceTopK, deduplicate \in BOOLEAN :
          sliced' = [op |-> "slice", top_k |-> top_k, deduplicate |-> deduplicate,
                     candidates |-> slice_r1cs(r1cs, top_k, deduplicate)]
    /\ pc' = "sl_sliced"
    /\ UNCHANGED <<cmVars, pvVars, txVars, evVars, ccVars>>

NextSlice == FingerprintConstraints \/ SliceR1cs

SpecSlice == InitSlice /\ [][NextSlice]_vars

\* equal as Python mappings: the same keys, bound to numerically equal values
SameItems(x, y) ==
    /\ ItemKeys(x) = ItemKeys(y)
    /\ \A i \in 1..Len(x), j \in 1..Len(y) : x[i].k = y[j].k => x[i].v.v = y[j].v.v

SameStructure(c1, c2) ==
    /\ SameItems(c1.A, c2.A) /\ SameItems(c1.B, c2.B) /\ SameItems(c1.C, c2.C)
    /\ c1.has_source = c2.has_source
    /\ c1.source = c2.source

SlicedIdxs == {sliced.candidates[i].idx : i \in 1..Len(sliced.candidates)}

(***************************************************************************)
(* C15: with deduplicate = true, when constraints i < j have the same A, B *)
(* and C as mappings (whatever the insertion order) and the same source,   *)
(* the output of slice_r1cs does not contain index j.                      *)
(***************************************************************************)
C15_DedupKeepsLowestIndex ==
    (pc = "sl_sliced" /\ sliced.deduplicate) =>
        \A i, j \in 1..Len(r1cs.constraints) :
            (i < j /\ SameStructure(r1cs.constraints[i], r1cs.constraints[j]))
                => (j - 1) \notin SlicedIdxs

\* constraints 0 and 2 are the same up to insertion order; 0 is kept, 2 is not
C15_Witness ==
    /\ pc = "sl_sliced" /\ sliced.deduplicate
    /\ Len(r1cs.constraints) = 3
    /\ r1cs.constraints[1] # r1cs.constraints[3]
    /\ SameStructure(r1cs.constraints[1], r1cs.constraints[3])
    /\ ~SameStructure(r1cs.constraints[1], r1cs.constraints[2])
    /\ SlicedIdxs = {0, 1}

(***************************************************************************)
(* C16: two constraints with equal A, B and C mappings and equal source    *)
(* get equal fingerprints, whatever the insertion order of the entries.    *)
(***************************************************************************)
C16_FingerprintOrderInvariant ==
    pc = "sl_fingerprinted" =>
        \A i, j \in 1..Len(r1cs.constraints) :
            SameStructure(r1cs.constraints[i], r1cs.constraints[j])
                => sliced.fps[i] = sliced.fps[j]

\* two insertion orders of one constraint with one fingerprint, and another constraint
C16_Witness ==
    /\ pc = "sl_fingerprinted"
    /\ \E i, j, k \in 1..Len(r1cs.constraints) :
          /\ r1cs.constraints[i].A # r1cs.constraints[j].A
          /\ SortedItems(r1cs.constraints[i].A) = SortedItems(r1cs.constraints[j].A)
          /\ sliced.fps[i] = sliced.fps[j]
          /\ sliced.fps[k] # sliced.fps[i]

(***************************************************************************)
(* The evaluator harness: eval_constraint on a constraint over the         *)
(* variables a and b and an assignment of integers that may lack either.   *)
(***************************************************************************)
EvNames == {"a", "b"}
EvCoeffs == {-1, 2}
EvForms == UNION {[K -> EvCoeffs] : K \in SUBSET EvNames}
EvValues == {PyInt(n) : n \in -1..MaxVal}
EvAssignments == UNION {[K -> EvValues] : K \in SUBSET EvNames}

InitEval ==
    /\ pc = "ev_start"
    /\ committed = NoCommit
    /\ opening = NoOpening
    /\ vc = "None"
    /\ r1cs \in {[constraints |-> <<[A |-> fa, B |-> fb, C |-> fc, source |-> ""]>>] :
                      fa \in EvForms, fb \in EvForms, fc \in EvForms}
    /\ witness \in EvAssignments
    /\ cands = << >>
    /\ prover = NoProver
    /\ proof = NoProof
    /\ tx = NoTx
    /\ tx0 = NoTx
    /\ vd = "None"
    /\ vres = NoVres
    /\ evaluated = PyNone
    /\ views = NoView
    /\ search = NoSearch
    /\ sliced = NoSlice
    /\ sessions = << >>
    /\ instances = << >>

EvalConstraint ==
    /\ pc = "ev_start"
    /\ evaluated' = PyFloat(eval_constraint(r1cs.constraints[1], witness))
    /\ pc' = "ev_done"
    /\ UNCHANGED <<cmVars, pvVars, txVars, slVars, ccVars, views, search>>

NextEval == EvalConstraint

SpecEval == InitEval /\ [][NextEval]_vars

\* coeff * w[var], where a variable the form or the assignment lacks gives 0
TermOf(linear, w, var) ==
    (IF var \in DOMAIN linear THEN linear[var] ELSE 0)
        * (IF var \in DOMAIN w THEN w[var].v ELSE 0)

FormValue(linear, w) == TermOf(linear, w, "a") + TermOf(linear, w, "b")

(***************************************************************************)
(* C17: eval_constraint(c, w) is A(w)*B(w) - C(w), where X(w) is the sum   *)
(* of coeff*w[var] and a variable absent from w contributes 0; so it is 0  *)
(* exactly when A(w)*B(w) = C(w).                                          *)
(***************************************************************************)
C17_EvalConstraintIsResidual ==
    pc = "ev_done" =>
        LET c == r1cs.constraints[1]
            a_val == FormValue(c.A, witness)
            b_val == FormValue(c.B, witness)
            c_val == FormValue(c.C, witness)
        IN  /\ evaluated = PyFloat((a_val * b_val) - c_val)
            /\ evaluated.v = 0 <=> a_val * b_val = c_val

\* a partial assignment satisfying a constraint whose A mentions the absent variable
C17_Witness ==
    /\ pc = "ev_done"
    /\ "b" \in DOMAIN r1cs.constraints[1].A
    /\ "b" \notin DOMAIN witness
    /\ FormValue(r1cs.constraints[1].C, witness) # 0
    /\ evaluated = PyFloat(0)

(***************************************************************************)
(* Proof sessions on one shared Prover instance: the same statements as    *)
(* above, every session calling the methods of instance 1.                 *)
(***************************************************************************)
InitShared ==
    /\ pc = "shared"
    /\ committed = NoCommit
    /\ opening = NoOpening
    /\ vc = "None"
    /\ r1cs = NoR1cs
    /\ witness = << >>
    /\ cands = << >>
    /\ prover = NoProver
    /\ proof = NoProof
    /\ tx = NoTx
    /\ tx0 = NoTx
    /\ vd = "None"
    /\ vres = NoVres
    /\ evaluated = PyNone
    /\ views = NoView
    /\ search = NoSearch
    /\ sliced = NoSlice
    /\ sessions \in [Sessions -> {SessionStart(r, w, idxs) :
                                     r \in R1csSet, w \in ConcWitnesses, idxs \in ConcIdxs}]
    /\ instances = [i \in {1} |-> NoProver]

SpecShared == InitShared /\ [][NextConc]_vars

\* the step is session s returning from a commit_witness call
CommitStepOf(s) ==
    /\ sessions[s].pc \in {"start", "ensured"}
    /\ sessions'[s].pc \in {"precommitted", "loop"}

\* the step is one pass of session s through the loop of make_proof
LoopStepOf(s) == sessions'[s].k = sessions[s].k + 1

\* the step is session s leaving make_proof
ReturnStepOf(s) == sessions[s].pc = "loop" /\ sessions'[s].pc = "done"

(***************************************************************************)
(* C21: on one Prover instance, after every commit_witness (make_proof's   *)
(* own included) the instance holds the digest and nonce of that commit,   *)
(* and nothing else changes them; an opening is built with the nonce the   *)
(* instance holds at that moment; make_proof returns a transcript of the   *)
(* entries it built and of the label map of its own commit, so that after  *)
(* another session's commit the openings carry the later nonce while       *)
(* witness_commitments is from the earlier commit.                         *)
(***************************************************************************)
C21_LastCommitWins ==
    [][\A s \in Sessions :
          LET i == InstanceOf(s)
              me == sessions[s]
              after == sessions'[s]
          IN  /\ CommitStepOf(s) =>
                    /\ instances'[i].committed
                    /\ instances'[i].full_commitment =
                          commit_map(after.witness, instances'[i].full_opening_nonce).digest
                    /\ after.pc = "loop" =>
                          after.witness_commits["WITNESS"] = instances'[i].full_commitment
              /\ (\A t \in Sessions : ~CommitStepOf(t)) => instances' = instances
              /\ LoopStepOf(s) =>
                    \A n \in (Len(me.entries) + 1)..Len(after.entries) :
                        after.entries[n].opening.t # "none" =>
                            after.entries[n].opening.nonce = instances[i].full_opening_nonce
              /\ ReturnStepOf(s) =>
                    /\ after.exc = ""
                    /\ after.tx.present
                    /\ after.tx.violations = me.entries
                    /\ after.tx.witness_commitments = me.witness_commits
      ]_vars

\* the protocol state a proof session is in, as a number that grows along
\* Unstarted -> Committed -> Proven
ProtocolRank ==
    CASE pc = "unstarted" -> 0
      [] pc = "committed" -> 1
      [] pc = "proof_done" -> 2
      [] OTHER -> 3

\* the step is a call of make_proof coming back to its caller
MakeProofStep == pc # "proof_done" /\ pc' = "proof_done"

(***************************************************************************)
(* C22: a session moves Unstarted -> Committed -> Proven -> Verified and   *)
(* never back: make_proof leaves its caller with a transcript while the    *)
(* instance holds a commitment over that same witness, verifying that      *)
(* transcript ends in exactly one of accepted and rejected, and no step    *)
(* returns a session to an earlier state.                                  *)
(***************************************************************************)
C22_ProtocolStateMachine ==
    [][/\ ProtocolRank' >= ProtocolRank
       /\ MakeProofStep =>
             /\ proof'.exc = ""
             /\ tx'.present
             /\ prover'.committed
             /\ prover'.full_commitment =
                   commit_map(witness', prover'.full_opening_nonce).digest
             /\ LET v == verify(r1cs', tx')
                IN  v.exc = "" /\ v.accepted \in BOOLEAN
      ]_vars

(***************************************************************************)
(* Verifier.verify and the WITNESS label of witness_commitments.           *)
(***************************************************************************)
\* the verifier's verdict on entry i: no check of it came out false
EntryPassed(i) ==
    ResidualChecks[i].residual_ok = "True" /\ ResidualChecks[i].opening_ok # "False"

\* the residual the verifier recomputed for entry i matches the entry's claim
RecomputedMatches(i) ==
    /\ ResidualChecks[i].computed_residual.t # "none"
    /\ IsClose(ResidualChecks[i].computed_residual.v, PyToFloat(tx.violations[i].residual))

\* C23's three statements about entry i, given what counts as "no WITNESS
\* commitment" in the transcript
OpeningOkFollowsLabel(i, no_commitment) ==
    LET wc == tx.witness_commitments
        e == tx.violations[i]
    IN  /\ ResidualChecks[i].opening_ok = "None" <=> no_commitment
        /\ ~no_commitment =>
              ResidualChecks[i].opening_ok = PyBool(verify_commit(wc["WITNESS"], e.opening))
        /\ no_commitment => (EntryPassed(i) <=> RecomputedMatches(i))
        /\ (no_commitment /\ Len(tx.violations) = 1) =>
              (vres.accepted <=> RecomputedMatches(i))

(***************************************************************************)
(* C23 as claimed: in a transcript the verifier went through, an entry     *)
(* with a non-null opening has opening_ok = null if and only if            *)
(* witness_commitments has no WITNESS label; with the label opening_ok is  *)
(* the boolean verify_commit returns for it; without it the entry passes   *)
(* exactly when the recomputed residual matches the claimed one.           *)
(***************************************************************************)
C23_OpeningOkNullIffNoLabel ==
    (pc = "tx_verified" /\ vres.report.digest_ok) =>
        \A i \in 1..Len(tx.violations) :
            tx.violations[i].opening.t # "none" =>
                OpeningOkFollowsLabel(i, "WITNESS" \notin DOMAIN tx.witness_commitments)

(***************************************************************************)
(* C23 as amended: in a transcript the verifier went through, an entry     *)
(* with a non-null opening has opening_ok = null if and only if            *)
(* witness_commitments has no WITNESS label or an empty one; with a        *)
(* non-empty label opening_ok is the boolean verify_commit returns for it; *)
(* otherwise the entry passes exactly when the recomputed residual matches *)
(* the claimed one.                                                        *)
(***************************************************************************)
C23_OpeningOkNullIffNoDigest ==
    (pc = "tx_verified" /\ vres.report.digest_ok) =>
        \A i \in 1..Len(tx.violations) :
            tx.violations[i].opening.t # "none" =>
                OpeningOkFollowsLabel(i, \/ "WITNESS" \notin DOMAIN tx.witness_commitments
                                         \/ tx.witness_commitments["WITNESS"] = "")

\* an opening left unchecked for want of a WITNESS label, its entry passed on
\* the recomputed residual, next to a transcript-wide state where a label is
\* present: the verifier went through an entry with an opening both ways
C23_Witness ==
    /\ pc = "tx_verified"
    /\ vres.report.digest_ok
    /\ "WITNESS" \notin DOMAIN tx.witness_commitments
    /\ \E i, j \in 1..Len(tx.violations) :
          /\ tx.violations[i].opening.t # "none"
          /\ ResidualChecks[i].opening_ok = "None"
          /\ EntryPassed(i)
          /\ tx.violations[j].opening.t # "none"
          /\ ResidualChecks[j].residual_ok = "False"
    /\ ~vres.accepted

\* an entry whose fields have the types make_proof gives them: a number for
\* the residual, a dict or null for the opening, an int (or nothing) for idx
EntryWellTyped(e) ==
    /\ e.residual.t \in {"int", "float"}
    /\ e.opening.t \notin {"str"}
    /\ e.idx.t \in {"int", "none", "missing"}

(***************************************************************************)
(* C24: verifying a transcript of well-typed entries returns, and when the *)
(* digest was found valid report.residual_checks has exactly one record    *)
(* per entry of violations, in the same order, each with the entry's idx   *)
(* and source, whatever checks the entries before it failed.               *)
(***************************************************************************)
C24_OneRecordPerEntry ==
    /\ pc = "tx_raised" =>
          \E i \in 1..Len(tx.violations) : ~EntryWellTyped(tx.violations[i])
    /\ (pc = "tx_verified" /\ vres.report.digest_ok) =>
          /\ Len(ResidualChecks) = Len(tx.violations)
          /\ \A i \in 1..Len(tx.violations) :
                /\ ResidualChecks[i].idx =
                      (IF tx.violations[i].idx.t = "missing" THEN PyNone
                       ELSE tx.violations[i].idx)
                /\ ResidualChecks[i].source = tx.violations[i].source

\* a first entry whose opening does not open the WITNESS commitment, then an
\* entry whose residual check failed: both have their record
C24_Witness ==
    /\ pc = "tx_verified"
    /\ vres.report.digest_ok
    /\ Len(tx.violations) = 2
    /\ Len(ResidualChecks) = 2
    /\ ResidualChecks[1].opening_ok = "False"
    /\ ResidualChecks[2].residual_ok = "False"
    /\ ResidualChecks[2].idx = tx.violations[2].idx
    /\ ~vres.accepted

\* the step is a call of commit_witness or of make_proof coming back
ProverCallStep == pc' \in {"committed", "proof_done"} /\ pc' # pc

(***************************************************************************)
(* C25: a call of commit_witness or make_proof, raising or not, leaves the *)
(* caller's witness with the keys it had, each with the value it had, and  *)
(* with ONE = 1.0 added if ONE was absent; no other key is added or        *)
(* removed; the r1cs and the candidate index list are as they were.        *)
(***************************************************************************)
C25_OnlyOneIsAdded ==
    [][ProverCallStep =>
          /\ DOMAIN witness' = DOMAIN witness \cup {"ONE"}
          /\ \A k \in DOMAIN witness : witness'[k] = witness[k]
          /\ "ONE" \notin DOMAIN witness => witness'["ONE"] = PyFloat(1)
          /\ r1cs' = r1cs
          /\ cands' = cands
      ]_vars

\* make_proof has come back to a caller whose witness had ONE = 2.0, and to
\* one whose witness had no ONE: the first still has 2.0, the second has 1.0
C25_Witness ==
    /\ pc = "proof_done"
    /\ proof.called
    /\ cands # << >>
    /\ \/ witness = WitnessOneTwo
       \/ witness = ensure_one(WitnessNoOne) /\ witness["ONE"] = PyFloat(1)

(***************************************************************************)
(* slice_r1cs: ranking and truncation.                                     *)
(***************************************************************************)
Min2(a, b) == IF a <= b THEN a ELSE b

\* the indices slice_r1cs ranks: every constraint, or with deduplicate only
\* the first constraint of each fingerprint
Survivors ==
    {i \in 0..(Len(r1cs.constraints) - 1) :
        sliced.deduplicate =>
            \A j \in 0..(i - 1) :
                fingerprint_constraint(r1cs.constraints[j + 1], DefaultTruncate)
                    # fingerprint_constraint(r1cs.constraints[i + 1], DefaultTruncate)}

\* what C26 says of the list slice_r1cs returned, for the top_k it was given
RankedAndCut ==
    LET out == sliced.candidates
    IN  /\ Len(out) = Min2(sliced.top_k, Cardinality(Survivors))
        /\ \A m \in 1..Len(out) :
              /\ out[m].idx \in Survivors
              /\ out[m].score = score_constraint(r1cs.constraints[out[m].idx + 1])
        /\ \A m, n \in 1..Len(out) :
              m < n => \/ out[m].score > out[n].score
                       \/ out[m].score = out[n].score /\ out[m].idx < out[n].idx
        /\ \A i \in Survivors \ SlicedIdxs : \A m \in 1..Len(out) :
              score_constraint(r1cs.constraints[i + 1]) <= out[m].score

(***************************************************************************)
(* C26: for every r1cs and every integer top_k the list slice_r1cs returns *)
(* has min(top_k, number of survivors) items, all survivors, ordered by    *)
(* score descending and, at equal score, by ascending index, and no        *)
(* survivor left out has a higher score than one returned.                 *)
(***************************************************************************)
C26_RankedAndCutToTopK == pc = "sl_sliced" => RankedAndCut

(***************************************************************************)
(* r1cs_utils.py: build_var_index, constraints_to_dense_matrices and       *)
(* to_triplet_list.  The variables map is a function from names to         *)
(* indices; a dict is gone through in the order of KeyOrder.               *)
(***************************************************************************)
MaxOf(S) == CHOOSE x \in S : \A y \in S : y <= x

\* the exception ("" for none), the copy of the variables map and the
\* idx -> name list
build_var_index(r) ==
    LET vars_map == r.variables
        values == {vars_map[name] : name \in DOMAIN vars_map}
        max_idx == IF values = {} THEN -1 ELSE MaxOf(values)
        named(i) == {name \in DOMAIN vars_map : vars_map[name] = i}
    IN  IF \E name \in DOMAIN vars_map : vars_map[name] < 0
        THEN [exc |-> "ValueError"]
        ELSE [exc |-> "", vars_map |-> vars_map,
              idx_to_name |->
                  [j \in 1..(max_idx + 1) |->
                      IF named(j - 1) = {} THEN "<var_" \o ToString(j - 1) \o "_missing>"
                      ELSE LET order == SortedKeys(named(j - 1)) IN order[Len(order)]]]

\* the variables of a constraint's A, B and C that the map does not have
unknown_vars_of(c, vars_map) ==
    {var \in DOMAIN c.A \cup DOMAIN c.B \cup DOMAIN c.C : var \notin DOMAIN vars_map}

\* one row of a dense matrix: A[i, vars_map[var]] = float(coeff) for
\* each var of the part, zero elsewhere
dense_row(part, vars_map, n) ==
    [j \in 1..n |->
        LET here == {var \in DOMAIN part : vars_map[var] = j - 1}
        IN  IF here = {} THEN 0
            ELSE LET order == SortedKeys(here) IN part[order[Len(order)]]]

constraints_to_dense_matrices_skips_unknown(r) ==
    LET bvi == build_var_index(r)
        known(part) == [var \in DOMAIN part \cap DOMAIN r.variables |-> part[var]]
    IN  IF bvi.exc # "" THEN [exc |-> bvi.exc]
        ELSE LET n == Len(bvi.idx_to_name)
                 m == Len(r.constraints)
             IN  [exc |-> "",
                  A |-> [i \in 1..m |-> dense_row(known(r.constraints[i].A), bvi.vars_map, n)],
                  B |-> [i \in 1..m |-> dense_row(known(r.constraints[i].B), bvi.vars_map, n)],
                  C |-> [i \in 1..m |-> dense_row(known(r.constraints[i].C), bvi.vars_map, n)]]

constraints_to_dense_matrices(r) ==
    LET bvi == build_var_index(r)
    IN  IF bvi.exc # "" THEN [exc |-> bvi.exc]
        ELSE IF \E i \in 1..Len(r.constraints) :
                    unknown_vars_of(r.constraints[i], bvi.vars_map) # {}
        THEN [exc |-> "KeyError"]
        ELSE LET n == Len(bvi.idx_to_name)
                 m == Len(r.constraints)
             IN  [exc |-> "",
                  A |-> [i \in 1..m |-> dense_row(r.constraints[i].A, bvi.vars_map, n)],
                  B |-> [i \in 1..m |-> dense_row(r.constraints[i].B, bvi.vars_map, n)],
                  C |-> [i \in 1..m |-> dense_row(r.constraints[i].C, bvi.vars_map, n)]]

\* the triplets of one part of constraint i (0-based), in dict order
part_triplets(i, part, tag, vars_map) ==
    LET order == SortedKeys(DOMAIN part)
    IN  [j \in 1..Len(order) |-> <<i, vars_map[order[j]], part[order[j]], tag>>]

RECURSIVE triplets_from(_, _, _)
triplets_from(constraints, i, vars_map) ==
    IF i >= Len(constraints) THEN << >>
    ELSE LET c == constraints[i + 1]
         IN  part_triplets(i, c.A, "A", vars_map) \o part_triplets(i, c.B, "B", vars_map)
                 \o part_triplets(i, c.C, "C", vars_map)
                 \o triplets_from(constraints, i + 1, vars_map)

to_triplet_list(r) ==
    LET bvi == build_var_index(r)
    IN  IF bvi.exc # "" THEN [exc |-> bvi.exc]
        ELSE IF \E i \in 1..Len(r.constraints) :
                    unknown_vars_of(r.constraints[i], bvi.vars_map) # {}
        THEN [exc |-> "KeyError"]
        ELSE [exc |-> "", triplets |-> triplets_from(r.constraints, 0, bvi.vars_map)]

(***************************************************************************)
(* The views harness: an r1cs with a variables map and up to MaxRows       *)
(* constraints, then one of the two view builders.                         *)
(***************************************************************************)
MaxRows == 2        \* longest constraint list handed to the view builders

\* variables maps: complete, without d, with a negative index, sparse, empty
VwVariables ==
    { [ONE |-> 0, a |-> 1, b |-> 2, c |-> 3, d |-> 4],
      [ONE |-> 0, a |-> 1, b |-> 2, c |-> 3],
      [ONE |-> 0, a |-> -1, b |-> 2, c |-> 3, d |-> 4],
      [ONE |-> 0, a |-> 1, b |-> 5, c |-> 3, d |-> 2],
      [a |-> -1],
      << >> }

ConstraintDouble == [A |-> [a |-> 2], B |-> [ONE |-> 1], C |-> [a |-> 2], source |-> ""]
ConstraintEmpty == [A |-> << >>, B |-> << >>, C |-> << >>, source |-> ""]

VwConstraints == {ConstraintMul, ConstraintAdd, ConstraintDouble, ConstraintEmpty}

InitViews ==
    /\ pc = "vw_start"
    /\ committed = NoCommit
    /\ opening = NoOpening
    /\ vc = "None"
    /\ r1cs \in {[variables |-> vm, constraints |-> cs] :
                    vm \in VwVariables, cs \in SeqsUpTo(VwConstraints, MaxRows)}
    /\ witness = << >>
    /\ cands = << >>
    /\ prover = NoProver
    /\ proof = NoProof
    /\ tx = NoTx
    /\ tx0 = NoTx
    /\ vd = "None"
    /\ vres = NoVres
    /\ evaluated = PyNone
    /\ views = NoView
    /\ search = NoSearch
    /\ sliced = NoSlice
    /\ sessions = << >>
    /\ instances = << >>

ConstraintsToDenseMatrices ==
    /\ pc = "vw_start"
    /\ views' = [op |-> "dense"] @@ constraints_to_dense_matrices(r1cs)
    /\ pc' = "vw_done"
    /\ UNCHANGED <<cmVars, pvVars, txVars, slVars, ccVars, evaluated, search>>

ToTripletList ==
    /\ pc = "vw_start"
    /\ views' = [op |-> "triplets"] @@ to_triplet_list(r1cs)
    /\ pc' = "vw_done"
    /\ UNCHANGED <<cmVars, pvVars, txVars, slVars, ccVars, evaluated, search>>

NextViews == ConstraintsToDenseMatrices \/ ToTripletList

SpecViews == InitViews /\ [][NextViews]_vars

\* some constraint of the r1cs names a variable the variables map lacks
UnknownReference ==
    \E i \in 1..Len(r1cs.constraints) :
        unknown_vars_of(r1cs.constraints[i], r1cs.variables) # {}

\* the variables map gives some variable a negative index
NegativeIndex == \E name \in DOMAIN r1cs.variables : r1cs.variables[name] < 0

\* an assignment giving 1.0 to the variables of the map, and the same with an
\* explicit 0.0 for every other variable the constraint names
KnownOnes == [v \in DOMAIN r1cs.variables |-> PyFloat(1)]
UnknownAsZero(c) ==
    [v \in DOMAIN r1cs.variables \cup constraint_support(c) |->
        IF v \in DOMAIN r1cs.variables THEN PyFloat(1) ELSE PyFloat(0)]

\* eval_constraint and the verifier's evaluation take an unknown variable as 0
UnknownEvaluatesAsZero ==
    \A i \in 1..Len(r1cs.constraints) :
        LET c == r1cs.constraints[i]
        IN  /\ eval_constraint(c, KnownOnes) = eval_constraint(c, UnknownAsZero(c))
            /\ verifier_eval_linear(c.A, KnownOnes) = eval_linear_form(c.A, UnknownAsZero(c))

(***************************************************************************)
(* C27 as claimed: constraints_to_dense_matrices and to_triplet_list raise *)
(* if and only if some constraint's A, B or C names a variable that is not *)
(* in the variables map; eval_constraint and the verifier's evaluation     *)
(* take such a variable as 0.                                              *)
(***************************************************************************)
C27_RaisesIffUnknownVariable ==
    pc = "vw_done" =>
        /\ views.exc # "" <=> UnknownReference
        /\ UnknownEvaluatesAsZero

(***************************************************************************)
(* C27 as amended: constraints_to_dense_matrices and to_triplet_list raise *)
(* if and only if the variables map has a negative index (ValueError) or,  *)
(* that not being so, some constraint's A, B or C names a variable that is *)
(* not in the variables map (KeyError); eval_constraint and the verifier's *)
(* evaluation take such a variable as 0.                                   *)
(***************************************************************************)
C27_RaisesIffUnknownOrNegative ==
    pc = "vw_done" =>
        /\ views.exc # "" <=> (UnknownReference \/ NegativeIndex)
        /\ views.exc = "ValueError" <=> NegativeIndex
        /\ views.exc = "KeyError" <=> (UnknownReference /\ ~NegativeIndex)
        /\ UnknownEvaluatesAsZero

\* the dense view of d <== a + b was refused for want of d in the map, and
\* eval_constraint gives that constraint a value all the same
C27_Witness ==
    /\ pc = "vw_done"
    /\ views.op = "dense"
    /\ views.exc = "KeyError"
    /\ r1cs.constraints = <<ConstraintMul, ConstraintAdd>>
    /\ "d" \notin DOMAIN r1cs.variables
    /\ eval_constraint(ConstraintAdd, KnownOnes) = 2

\* every in-range constraint the caller asked for is satisfied by the witness
RequestedAllSatisfied ==
    /\ WantedIdxs # << >>
    /\ \A i \in 1..Len(WantedIdxs) :
          IsClose(eval_constraint(r1cs.constraints[WantedIdxs[i] + 1], witness), 0)

(***************************************************************************)
(* C28: when every in-range requested constraint has zero residual under   *)
(* the witness, make_proof returns a transcript that Verifier.verify       *)
(* accepts against the same r1cs, every entry reported with residual_ok =  *)
(* true and opening_ok = null.                                             *)
(***************************************************************************)
C28_SatisfiedIsAccepted ==
    (pc = "proof_done" /\ RequestedAllSatisfied) =>
        /\ proof.exc = ""
        /\ LET v == verify(r1cs, proof.tx)
           IN  /\ v.exc = ""
               /\ v.accepted
               /\ Len(v.report.residual_checks) = Len(WantedIdxs)
               /\ \A i \in 1..Len(v.report.residual_checks) :
                     /\ v.report.residual_checks[i].residual_ok = "True"
                     /\ v.report.residual_checks[i].opening_ok = "None"

\* the transcript has no digest field, or an empty one
DigestAbsent == tx.present /\ (~tx.has_digest \/ tx.digest = "")

(***************************************************************************)
(* C29: for a transcript with no digest field or an empty digest,          *)
(* validate_transcript_digest returns false and Verifier.verify returns    *)
(* false with digest_ok = false in its report, without raising, whatever   *)
(* entries and commitments the transcript has.                             *)
(***************************************************************************)
C29_NoDigestNeverAccepted ==
    DigestAbsent =>
        /\ pc = "tx_validated" => vd = "False"
        /\ pc # "tx_raised"
        /\ pc = "tx_verified" =>
              /\ ~vres.accepted
              /\ ~vres.report.digest_ok

\* a transcript whose entries would all pass, and one with an entry that makes
\* the loop raise, each without digest: both were rejected on the digest
C29_Witness ==
    /\ pc = "tx_verified"
    /\ DigestAbsent
    /\ ~vres.accepted
    /\ ~vres.report.digest_ok
    /\ Len(tx.violations) > 0
    /\ \/ verify_skips_digest_check(r1cs, tx).accepted
       \/ \E i \in 1..Len(tx.violations) : tx.violations[i].residual.t = "str"

(***************************************************************************)
(* solver_fallback.py: _evaluate_constraint_residual and                   *)
(* brute_force_search.  The result of a search is the exception it ended   *)
(* with ("" for none), whether it returned None, and the dict it returned. *)
(***************************************************************************)
\* eval_lin of _evaluate_constraint_residual: assignment.get(var, 0.0)
eval_lin(lin, assignment) ==
    SumOver(DOMAIN lin,
            [var \in DOMAIN lin |->
                lin[var] * PyToFloat(DictGetDefault(assignment, var, PyFloat(0)))])

evaluate_constraint_residual(c, assignment) ==
    (eval_lin(c.A, assignment) * eval_lin(c.B, assignment)) - eval_lin(c.C, assignment)

\* list(range(low, high + 1))
RangeList(low, high) == [i \in 1..(high - low + 1) |-> low + i - 1]

RECURSIVE Power(_, _)
Power(n, k) == IF k = 0 THEN 1 ELSE n * Power(n, k - 1)

\* assign = dict(partial); for i, v in enumerate(unknown_vars):
\* assign[v] = float(domain[indices[i]]) -- a later occurrence of v overwrites
search_assign(partial, unknown_vars, domain, indices) ==
    LET names == {unknown_vars[i] : i \in 1..Len(unknown_vars)}
        last(v) == MaxOf({i \in 1..Len(unknown_vars) : unknown_vars[i] = v})
    IN  [v \in DOMAIN partial \cup names |->
            IF v \in names THEN PyFloat(domain[indices[last(v)] + 1]) ELSE partial[v]]

\* abs(res) > 1e-9 for no constraint (residuals are whole numbers here)
search_ok(r, assign) ==
    \A i \in 1..Len(r.constraints) :
        evaluate_constraint_residual(r.constraints[i], assign) = 0

\* the odometer step on indices: the new indices, and whether pos fell below 0
RECURSIVE search_increment(_, _, _)
search_increment(indices, pos, n) ==
    IF pos < 1 THEN [indices |-> indices, wrapped |-> TRUE]
    ELSE IF indices[pos] + 1 < n
    THEN [indices |-> [indices EXCEPT ![pos] = indices[pos] + 1], wrapped |-> FALSE]
    ELSE search_increment([indices EXCEPT ![pos] = 0], pos - 1, n)

SearchNone(tried) == [exc |-> "", none |-> TRUE, tried |-> tried]

\* the while True loop, from the state (indices, tried)
RECURSIVE search_loop(_, _, _, _, _, _, _)
search_loop(r, partial, unknown_vars, domain, max_trials, indices, tried) ==
    LET assign == search_assign(partial, unknown_vars, domain, indices)
    IN  IF search_ok(r, assign)
        THEN [exc |-> "", none |-> FALSE, assignment |-> assign, tried |-> tried]
        ELSE IF tried + 1 >= max_trials THEN SearchNone(tried + 1)
        ELSE LET inc == search_increment(indices, Len(indices), Len(domain))
             IN  IF inc.wrapped THEN SearchNone(tried + 1)
                 ELSE search_loop(r, partial, unknown_vars, domain, max_trials,
                                  inc.indices, tried + 1)

brute_force_search(r, partial, unknown_vars, low, high, max_trials) ==
    LET domain == RangeList(low, high)
        k == Len(unknown_vars)
    IN  IF k = 0 THEN [exc |-> "", none |-> FALSE, assignment |-> partial, tried |-> 0]
        ELSE IF Power(Len(domain), k) > max_trials THEN SearchNone(0)
        ELSE IF Len(domain) = 0
        THEN [exc |-> "IndexError", tried |-> 0]       \* domain[0] of an empty list
        ELSE search_loop(r, partial, unknown_vars, domain, max_trials,
                         [i \in 1..k |-> 0], 0)

(***************************************************************************)
(* The search harness: an r1cs and a partial assignment, then one call of  *)
(* brute_force_search.                                                     *)
(***************************************************************************)
MaxUnknowns == 2    \* longest unknown_vars list handed to brute_force_search

BfR1cs ==
    { [constraints |-> << >>],
      [constraints |-> <<ConstraintMul>>],
      [constraints |-> <<ConstraintMul, ConstraintDouble>>] }

BfPartials ==
    { << >>,
      [a |-> PyFloat(2)],
      [a |-> PyFloat(2), b |-> PyFloat(1)],
      [a |-> PyFloat(2), b |-> PyFloat(1), c |-> PyFloat(0)],
      [a |-> PyFloat(1), b |-> PyFloat(1), c |-> PyFloat(5)],
      [ONE |-> PyFloat(1), a |-> PyFloat(2), b |-> PyFloat(2)] }

BfNames == {"b", "c"}
BfDomains == {<<0, 1>>, <<0, 2>>, <<1, 2>>, <<1, 0>>}
BfMaxTrials == {0, 1, 3, 9, 100000}

InitSearch ==
    /\ pc = "bf_start"
    /\ committed = NoCommit
    /\ opening = NoOpening
    /\ vc = "None"
    /\ r1cs \in BfR1cs
    /\ witness \in BfPartials
    /\ cands = << >>
    /\ prover = NoProver
    /\ proof = NoProof
    /\ tx = NoTx
    /\ tx0 = NoTx
    /\ vd = "None"
    /\ vres = NoVres
    /\ evaluated = PyNone
    /\ views = NoView
    /\ search = NoSearch
    /\ sliced = NoSlice
    /\ sessions = << >>
    /\ instances = << >>

BruteForceSearch ==
    /\ pc = "bf_start"
    /\ \E unknown_vars \in SeqsUpTo(BfNames, MaxUnknowns), domain_range \in BfDomains,
          max_trials \in BfMaxTrials :
          search' = [op |-> "search", unknown_vars |-> unknown_vars,
                     low |-> domain_range[1], high |-> domain_range[2],
                     max_trials |-> max_trials]
                    @@ brute_force_search(r1cs, witness, unknown_vars,
                                          domain_range[1], domain_range[2], max_trials)
    /\ pc' = "bf_done"
    /\ UNCHANGED <<cmVars, pvVars, txVars, slVars, ccVars, evaluated, views>>

NextSearch == BruteForceSearch

SpecSearch == InitSearch /\ [][NextSearch]_vars

\* the unknown variables of the call, and the values of its domain
SearchUnknowns == {search.unknown_vars[i] : i \in 1..Len(search.unknown_vars)}
SearchDomain == search.low .. search.high

\* asg keeps every binding of partial, binds every unknown variable to a
\* value of the domain and gives every constraint a zero residual
IsSolution(asg) ==
    /\ \A v \in DOMAIN witness : v \in DOMAIN asg /\ asg[v] = witness[v]
    /\ \A v \in SearchUnknowns : v \in DOMAIN asg /\ asg[v].v \in SearchDomain
    /\ \A i \in 1..Len(r1cs.constraints) :
          eval_constraint(r1cs.constraints[i], asg) = 0

\* the assignments that extend partial by a domain value for each unknown
SearchCandidates ==
    {[v \in DOMAIN witness \cup SearchUnknowns |->
         IF v \in DOMAIN witness THEN witness[v] ELSE PyFloat(f[v])] :
       f \in [SearchUnknowns \ DOMAIN witness -> SearchDomain]}

(***************************************************************************)
(* C30: brute_force_search returns (it does not raise) either None or an   *)
(* assignment that keeps every binding of partial, binds every unknown     *)
(* variable to a value of the domain and gives every constraint a zero     *)
(* residual, for every list of unknown variables, the empty list included; *)
(* when |domain|^k <= max_trials it returns None only if no such           *)
(* assignment exists.                                                      *)
(***************************************************************************)
C30_SearchReturnsSolutionOrNone ==
    pc = "bf_done" =>
        /\ search.exc = ""
        /\ ~search.none => IsSolution(search.assignment)
        /\ (/\ search.none
            /\ Power(Cardinality(SearchDomain), Len(search.unknown_vars)) <= search.max_trials)
              => \A asg \in SearchCandidates : ~IsSolution(asg)

====
